---- MODULE Spec2Model ----
(***************************************************************************)
(* Verification model of the horadric-deckard indexing pipeline.           *)
(*                                                                         *)
(* Two generations of the pipeline live in the repository and both are     *)
(* modelled; each subsystem has a specification of its own:                *)
(*                                                                         *)
(*   SpecApp     app/indexer.py: watcher events -> coalesce map + dedup    *)
(*               queue -> worker -> DBWriter (batch, one transaction).     *)
(*   SpecWriter  sari/core/indexer: fs events -> priority tasks / direct   *)
(*               deletes -> DBWriter (batch, transaction, engine, retry).  *)
(*   SpecGate    sari/core/indexer/db_writer.py: the writer threads of     *)
(*               several processes behind the _WriteGate file lock.        *)
(*   SpecSched   sari/core/scheduler: priority queue and fair queue.       *)
(*   SpecScan    sari/core/indexer/main.py: full scan through the staging  *)
(*               table, prune and merge, with two worker loops.            *)
(*   SpecLife    sari/core/indexer/db_writer.py: start, enqueue, stop and  *)
(*               the loop of the writer thread; SpecLifeFair adds the      *)
(*               fairness of that thread.                                  *)
(*   SpecTools   mcp/tools: the limits of search, list_files and           *)
(*               search_symbols.                                           *)
(*   SpecAppFair the pipeline of SpecApp with fewer events and a worker    *)
(*               thread that keeps running.                                *)
(*   SpecShut    app/indexer.py: stop() and the drain of the queues.       *)
(*   SpecPool    sari/core/indexer/main.py: worker loops, pending futures  *)
(*               and the fall back from the process pool.                  *)
(*   SpecLocks   the order in which the indexing threads take their locks. *)
(*   SpecRegistry  mcp/registry.py, mcp/session.py: shared servers and     *)
(*               their reference counts.                                   *)
(*   SpecProxy   mcp/proxy.py: proxies starting the daemon.                *)
(*                                                                         *)
(* A file's content, mtime and size are abstracted to a version number;    *)
(* version 0 is "no file" on disk and "no row" in a table.                 *)
(***************************************************************************)
EXTENDS Integers, Sequences, FiniteSets, TLC

\* ---------------------------------------------------------------- bounds
MaxVer == 2
MaxEvents == 3
MaxFaults == 3
coalesce_max_keys == 1
max_batch == 2
MaxExtra == 1
MaxWriterEvents == 2
MaxWriterFaults == 1
MaxGateTasks == 2
MaxGateFaults == 2
MaxSchedOps == 6
MaxFairLen == 3
MaxClock == 3
MaxScanEvents == 1
MaxScanFaults == 1
MaxLifeTasks == 3
MaxLifeFaults == 1
MaxShutEvents == 2
MaxCoalesceEvents == 2
MaxCoalesceFaults == 2
max_workers == 2
MaxInit == 3
MaxRegFaults == 1
StartupPolls == 20
MaxPoolTasks == 8
MaxPoolFaults == 2

Paths == {"a", "b"}
Procs == {1, 2}
RootOrder == <<"r1", "r2", "r3">>
Roots == {RootOrder[i] : i \in 1..Len(RootOrder)}
Workers == {1, 2}
PoolTasks == 1..MaxPoolTasks
Sessions == {"s1", "s2"}
Workspaces == {"w1", "w2"}
NoRoot == "none"
Proxies == {1, 2}
LockThreads == {"watcher", "worker", "scan_worker", "writer"}

\* ------------------------------------------------------------- constants
GetBatchMax == 50
MaxRetries == 2
l1_max_size == 500

VARIABLES
  disk,                 \* workspace files: path -> version (0 = missing)
  n_events,             \* filesystem events delivered so far
  n_faults,             \* injected failures so far
  \* --- app/indexer.py Indexer
  coalesce_map,         \* set of CoalesceTask
  event_queue,          \* DedupQueue of keys
  worker_keys,          \* keys of the batch the worker loop is iterating
  worker_task,          \* task popped from the map and being handled
  timers,               \* pending retry timers
  drop_count_degraded,
  retry_count,
  errors,               \* status.errors
  last_action,          \* path -> last action enqueued for it
  \* --- app/indexer.py DBWriter
  db_queue,             \* DBWriter.queue
  app_db,               \* committed tables
  app_failed,           \* batches lost to a rollback
  \* --- sari/core/indexer Indexer
  priority_queue,       \* coordinator priority queue of scan_file tasks
  status_errors,        \* status.errors
  \* --- sari/core/indexer DBWriter
  queue,                \* DBWriter.queue
  db,                   \* committed tables
  engine_docs,          \* documents held by the external engine
  engine_up,            \* the external engine answers
  last_batch,           \* tasks of the last iteration of _run
  run_log,              \* transaction events of the last iteration of _run
  run_ops,              \* operations of its batch attempt, in execution order
  run_singles,          \* its individual retries, in execution order
  run_engine_failed,    \* history: the engine raised during the last iteration
  skipped,              \* paths whose last files write was lost
  n_extra,              \* tasks enqueued by other producers so far
  \* --- sari/core/indexer DBWriter._run of each process sharing the db path
  gate_lock,            \* holder of the flock on <db_path>.write.lock, 0 = free
  gate_pc,              \* process -> position of its writer thread in _run
  gate_queue,           \* process -> tasks waiting in its DBWriter.queue
  gate_batch,           \* process -> tasks of the batch drained last
  gate_single,          \* process -> tasks left to retry individually
  gate_faults,          \* transactions that raised so far
  \* --- sari/core/scheduler SchedulingCoordinator
  sched_priority,       \* priority queue: sequence of <<root, task>>
  sched_fair,           \* fair queue: root -> sequence of tasks
  sched_rr,             \* index in RootOrder of the root served last
  sched_wait,           \* history: root -> fair hand-outs it was passed over
  sched_log,            \* history: queue of each hand-out, in order
  n_sched,              \* tasks enqueued so far
  \* --- sari/core/indexer Indexer: full scan with staging
  clock,                \* int(time.time())
  scan_pc,              \* run_forever: "init", "walk" (in scan_once), "ready"
  scan_next,            \* scan_once: index in RootOrder of the next root
  scan_started_ts,      \* status.scan_started_ts = status.last_scan_ts
  active_roots,         \* Indexer._active_roots
  in_flight,            \* worker -> task taken and not finalized yet
  l1_buffer,            \* path -> row waiting in the L1 buffer of its root
  scan_queue,           \* DBWriter.queue
  live,                 \* committed files table: path -> row
  staging,              \* committed staging_files table: path -> row
  scan_errors,          \* status.errors
  sql_threads,          \* history: threads that have executed mutating SQL
  pre_scan,             \* history: the files table when the scan started
  merged_ts,            \* history: scan_started_ts of the merge committed last
  dry_seen,             \* workers past the test of _active_roots, before the lock
  \* --- sari/core/indexer DBWriter: start, stop and the loop of _run
  writer_thread,        \* DBWriter._thread: "new", "loop", "batch", "dead"
  stop_event,           \* DBWriter._stop
  writer_queue,         \* DBWriter.queue.qsize() = status.queue_db_writer
  writer_batch,         \* tasks drained into the batch being processed
  last_commit_ts,       \* DBWriter.last_commit_ts
  stop_pc,              \* the caller of stop: "idle", "join", "returned"
  stop_ret,             \* the value stop returned
  stop_drained,         \* history: no task was pending when stop returned
  life_enq,             \* tasks enqueued so far
  life_faults,          \* batches that raised so far
  \* --- mcp/tools: one tool call
  tool_req,             \* the call: tool, encoding, limit, offset, matching rows
  tool_returned,        \* items of the response, -1 before the call
  \* --- app/indexer.py Indexer.stop
  shut_pc,              \* "running", "draining" (in _drain_queues), "stopped"
  drop_count_shutdown,  \* Indexer._drop_count_shutdown
  \* --- sari/core/indexer/main.py Indexer: worker loops and the process pool
  futures,              \* Indexer._futures: tasks whose future is pending
  use_process_pool,     \* Indexer._use_process_pool
  pool_next,            \* the next task the coordinator hands out
  loop_pc,              \* worker loop -> "top", "checked" (past the futures test)
  finalized,            \* task -> times its result was finalized
  pool_failed,          \* task -> times _handle_failed_task counted it
  affected,             \* history: tasks whose submit raised or whose pool broke
  pool_faults,          \* failures injected so far
  \* --- locks of the indexing threads
  lock_pc,              \* thread -> position in its sequence of lock steps
  lock_held,            \* thread -> the locks it holds, oldest first
  \* --- mcp/registry.py Registry and mcp/session.py Session
  reg_workspaces,       \* Registry._workspaces: the roots that have a SharedState
  ref_count,            \* root -> SharedState.ref_count (0 when there is none)
  shutdowns,            \* root -> calls of SharedState.shutdown so far
  created,              \* root -> SharedState objects constructed so far
  workspace_root,       \* session -> Session.workspace_root, NoRoot when unbound
  session_open,         \* session -> its connection is open
  n_init,               \* initialize requests so far
  reg_faults,           \* failed initializes so far
  \* --- mcp/proxy.py start_daemon_if_needed
  proxy_pc,             \* proxy -> "start", "want_lock", "locked", "waiting", "returned"
  proxy_polls,          \* proxy -> connection attempts of the wait loop
  proxy_ret,            \* proxy -> "none", "true", "false"
  daemon_lock,          \* holder of the flock on the daemon lock file, 0 when free
  spawned,              \* daemon processes started with Popen
  listening             \* a daemon accepts connections on (host, port)

envVars == <<disk, n_events, n_faults>>
appVars == <<coalesce_map, event_queue, worker_keys, worker_task, timers,
             drop_count_degraded, retry_count, errors, last_action,
             db_queue, app_db, app_failed>>
sariVars == <<priority_queue, status_errors, queue, db, engine_docs, engine_up,
              last_batch, run_log, run_ops, run_singles, run_engine_failed, skipped, n_extra>>
gateVars == <<gate_lock, gate_pc, gate_queue, gate_batch, gate_single,
              gate_faults>>
schedVars == <<sched_priority, sched_fair, sched_rr, sched_wait, sched_log,
               n_sched>>
scanVars == <<clock, scan_pc, scan_next, scan_started_ts, active_roots,
              in_flight, l1_buffer, scan_queue, live, staging, scan_errors,
              sql_threads, pre_scan, merged_ts, dry_seen>>
lifeVars == <<writer_thread, stop_event, writer_queue, writer_batch,
              last_commit_ts, stop_pc, stop_ret, stop_drained, life_enq,
              life_faults>>
toolVars == <<tool_req, tool_returned>>
shutVars == <<shut_pc, drop_count_shutdown>>
poolVars == <<futures, use_process_pool, pool_next, loop_pc, finalized,
              pool_failed, affected, pool_faults>>
lockVars == <<lock_pc, lock_held>>
regVars == <<reg_workspaces, ref_count, shutdowns, created, workspace_root,
             session_open, n_init, reg_faults>>
proxyVars == <<proxy_pc, proxy_polls, proxy_ret, daemon_lock, spawned, listening>>
lateVars == <<shutVars, poolVars, lockVars, regVars, proxyVars>>
sideVars == <<lifeVars, toolVars, lateVars>>
auxVars == <<gateVars, schedVars, scanVars, sideVars>>
nonAppVars == <<sariVars, auxVars>>
nonSariVars == <<appVars, auxVars>>

\* ----------------------------------------------------------------- helpers
Max(a, b) == IF a >= b THEN a ELSE b
Min(a, b) == IF a <= b THEN a ELSE b

Prefix(s, n) == SubSeq(s, 1, Min(n, Len(s)))
Suffix(s, n) == SubSeq(s, Min(n, Len(s)) + 1, Len(s))

RemoveAt(s, i) == SubSeq(s, 1, i - 1) \o SubSeq(s, i + 1, Len(s))

InSeq(x, s) == \E i \in 1..Len(s) : s[i] = x

\* ------------------------------------------------------ queue_pipeline.py
\* coalesce(a, b) = DELETE if either is DELETE else INDEX
coalesce_action(a, b) ==
  IF a = "DELETE" \/ b = "DELETE" THEN "DELETE" ELSE "INDEX"

\* MOVED is split into DELETE(src) followed by INDEX(dst)
split_moved_event(src, dst) ==
  << <<"DELETE", src>>, <<"INDEX", dst>> >>

\* --------------------------------------------------------- dedup_queue.py
\* put: a key already queued is not queued again
DedupPut(q, key) == IF InSeq(key, q) THEN q ELSE Append(q, key)

\* get_batch(max_size): the oldest keys, at most max_size of them
DedupGetBatch(q, n) == Prefix(q, n)

\* ------------------------------------------------------------ CoalesceTask
\* first, merged: history fields, the action the task was created with and the
\* actions coalesced into it since
CoalesceTask(action, path, attempts, first, merged) ==
  [action |-> action, path |-> path, attempts |-> attempts,
   first |-> first, merged |-> merged]

NoTask == CoalesceTask("NONE", "", 0, "NONE", {})

\* ------------------------------------------------------------------ DbTask
\* One row per task: path and the version of the content the row carries.
\* doc: the task carries an engine document / engine delete; seq: number of
\* the filesystem event that produced the task (0 when none did).
DbTask(kind, path, ver, doc, seq) ==
  [kind |-> kind, path |-> path, ver |-> ver, doc |-> doc, seq |-> seq]

\* Symbols and relations extracted from a content version: version 1 declares
\* symbols and relations, the other versions declare none.
HasSymbols(v) == v = 1

\* ========================================================================
\*                       app/indexer.py : Indexer
\* ========================================================================

\* mutant of EnqueueAction: the action that arrives last replaces the pending one
EnqueueAction_LastWins(st, action, path, attempts) ==
  LET exists == \E t \in st.map : t.path = path IN
  IF ~exists /\ Cardinality(st.map) >= coalesce_max_keys
  THEN [st EXCEPT !.drops = @ + 1]
  ELSE [st EXCEPT
         !.map = IF exists
                 THEN {IF t.path = path
                       THEN CoalesceTask(action, t.path, Max(t.attempts, attempts),
                                         t.first, t.merged \cup {action})
                       ELSE t : t \in st.map}
                 ELSE st.map \cup {CoalesceTask(action, path, attempts, action, {})},
         !.queue = DedupPut(st.queue, path)]

\* mutant of EnqueueAction: a new task is created whether or not the key has one
EnqueueAction_NoExistsCheck(st, action, path, attempts) ==
  IF Cardinality(st.map) >= coalesce_max_keys + 1
  THEN [st EXCEPT !.drops = @ + 1]
  ELSE [st EXCEPT
         !.map = st.map \cup {CoalesceTask(action, path, attempts, action, {})},
         !.queue = DedupPut(st.queue, path)]

\* mutant of EnqueueAction: at the key limit every action is dropped, also
\* one whose key has a pending task
EnqueueAction_DropAtLimit(st, action, path, attempts) ==
  LET exists == \E t \in st.map : t.path = path IN
  IF Cardinality(st.map) >= coalesce_max_keys
  THEN [st EXCEPT !.drops = @ + 1]
  ELSE [st EXCEPT
         !.map = IF exists
                 THEN {IF t.path = path
                       THEN CoalesceTask(coalesce_action(t.action, action),
                                         t.path, Max(t.attempts, attempts),
                                         t.first, t.merged \cup {action})
                       ELSE t : t \in st.map}
                 ELSE st.map \cup {CoalesceTask(action, path, attempts, action, {})},
         !.queue = DedupPut(st.queue, path)]

\* Indexer._enqueue_action on the triple (map, queue, drops)
EnqueueAction(st, action, path, attempts) ==
  LET exists == \E t \in st.map : t.path = path IN
  IF ~exists /\ Cardinality(st.map) >= coalesce_max_keys
  THEN [st EXCEPT !.drops = @ + 1]
  ELSE [st EXCEPT
         !.map = IF exists
                 THEN {IF t.path = path
                       THEN CoalesceTask(coalesce_action(t.action, action),
                                         t.path, Max(t.attempts, attempts),
                                         t.first, t.merged \cup {action})
                       ELSE t : t \in st.map}
                 ELSE st.map \cup {CoalesceTask(action, path, attempts, action, {})},
         !.queue = DedupPut(st.queue, path)]

CoalesceState == [map |-> coalesce_map, queue |-> event_queue,
                  drops |-> drop_count_degraded]

SetCoalesceState(st) ==
  /\ coalesce_map' = st.map
  /\ event_queue' = st.queue
  /\ drop_count_degraded' = st.drops

\* Indexer._enqueue_db_tasks: files, then symbols, then relations, the last
\* two only when the content has any
EnqueueDbTasks(q, path, ver, seq) ==
  q \o <<DbTask("upsert_files", path, ver, FALSE, seq)>>
    \o (IF HasSymbols(ver)
        THEN <<DbTask("upsert_symbols", path, ver, FALSE, 0),
               DbTask("upsert_relations", path, ver, FALSE, 0)>>
        ELSE <<>>)

\* Indexer._enqueue_delete_path
EnqueueDeletePath(q, path, seq) ==
  Append(q, DbTask("delete_path", path, 0, FALSE, seq))

\* random.uniform(0.8, 1.2), in thousandths: the two ends of the interval
Jitters == {800, 1200}

\* Indexer._retry_task: the delay of the timer in milliseconds, attempts
\* being the incremented count
RetrySleep(attempts, jitter) ==
  LET base == IF attempts = 1 THEN 500 ELSE 2000
  IN (base * jitter) \div 1000

\* threading.Timer(sleep, ...): the task it will enqueue and its delay
Timer(task, sleep) ==
  [action |-> task.action, path |-> task.path, attempts |-> task.attempts,
   first |-> task.first, merged |-> task.merged, delay |-> sleep]

TimerTask(t) == CoalesceTask(t.action, t.path, t.attempts, t.first, t.merged)

\* mutant of RetryTask: the cap is tested with > and allows a third retry
RetryTask_ThirdRetry(task) ==
  IF task.attempts > MaxRetries
  THEN /\ drop_count_degraded' = drop_count_degraded + 1
       /\ UNCHANGED <<timers, retry_count>>
  ELSE /\ retry_count' = retry_count + 1
       /\ \E jitter \in Jitters :
            timers' = Append(timers, Timer([task EXCEPT !.attempts = @ + 1],
                                           RetrySleep(task.attempts + 1, jitter)))
       /\ UNCHANGED drop_count_degraded

\* Indexer._retry_task on (timers, drops, retries)
RetryTask(task) ==
  IF task.attempts >= MaxRetries
  THEN /\ drop_count_degraded' = drop_count_degraded + 1
       /\ UNCHANGED <<timers, retry_count>>
  ELSE /\ retry_count' = retry_count + 1
       /\ \E jitter \in Jitters :
            timers' = Append(timers, Timer([task EXCEPT !.attempts = @ + 1],
                                           RetrySleep(task.attempts + 1, jitter)))
       /\ UNCHANGED drop_count_degraded

\* Indexer._process_file_task: the stored row matches the file and the file
\* is older than the safety window
Unchanged(path, old) ==
  /\ app_db.files[path] # 0
  /\ app_db.files[path] = disk[path]
  /\ old

\* ========================================================================
\*                       app/indexer.py : DBWriter
\* ========================================================================

RECURSIVE ApplyRows(_, _)
ApplyRows(tbl, rows) ==
  IF rows = <<>> THEN tbl
  ELSE ApplyRows([tbl EXCEPT ![Head(rows).path] = Head(rows).ver], Tail(rows))

TaskPaths(tasks, kind) ==
  {tasks[i].path : i \in {j \in 1..Len(tasks) : tasks[j].kind = kind}}

TasksOfKind(tasks, kind) == SelectSeq(tasks, LAMBDA t : t.kind = kind)

NotDeleted(rows, deleted) == SelectSeq(rows, LAMBDA t : t.path \notin deleted)

\* LocalSearchDB.delete_path_tx: the row of the path and what hangs on it
DeletePathTx(d, deleted) ==
  [d EXCEPT
     !.files = [p \in Paths |-> IF p \in deleted THEN 0 ELSE @[p]],
     !.symbols = [p \in Paths |-> IF p \in deleted THEN 0 ELSE @[p]],
     !.relations = [p \in Paths |-> IF p \in deleted THEN 0 ELSE @[p]]]

\* DBWriter._process_batch of app/indexer.py
AppProcessBatch(d, tasks) ==
  LET delete_paths == TaskPaths(tasks, "delete_path")
      upsert_files_rows == NotDeleted(TasksOfKind(tasks, "upsert_files"), delete_paths)
      upsert_symbols_rows == NotDeleted(TasksOfKind(tasks, "upsert_symbols"), delete_paths)
      upsert_relations_rows == NotDeleted(TasksOfKind(tasks, "upsert_relations"), delete_paths)
      s1 == DeletePathTx(d, delete_paths)
      s2 == [s1 EXCEPT !.files = ApplyRows(@, upsert_files_rows)]
      s3 == [s2 EXCEPT !.symbols = ApplyRows(@, upsert_symbols_rows)]
      s4 == [s3 EXCEPT !.relations = ApplyRows(@, upsert_relations_rows)]
  IN s4

\* ========================================================================
\*                            SpecApp : actions
\* ========================================================================

EmptyTable == [p \in Paths |-> 0]

InitEnv ==
  /\ disk \in [Paths -> {0, 1}]
  /\ n_events = 0
  /\ n_faults = 0

InitApp ==
  /\ coalesce_map = {}
  /\ event_queue = <<>>
  /\ worker_keys = <<>>
  /\ worker_task = NoTask
  /\ timers = <<>>
  /\ drop_count_degraded = 0
  /\ retry_count = 0
  /\ errors = 0
  /\ last_action = [p \in Paths |-> "NONE"]
  /\ db_queue = <<>>
  /\ app_db = [files |-> EmptyTable, symbols |-> EmptyTable, relations |-> EmptyTable]
  /\ app_failed = 0

\* watcher: a file is created or modified; Indexer._enqueue_fsevent
AppFsModified(p, v) ==
  /\ n_events < MaxEvents
  /\ n_events' = n_events + 1
  /\ disk' = [disk EXCEPT ![p] = v]
  /\ SetCoalesceState(EnqueueAction(CoalesceState, "INDEX", p, 0))
  /\ last_action' = [last_action EXCEPT ![p] = "INDEX"]
  /\ UNCHANGED <<n_faults, worker_keys, worker_task, timers, retry_count,
                 errors, db_queue, app_db, app_failed>>
  /\ UNCHANGED nonAppVars

\* watcher: a file is deleted; Indexer._enqueue_fsevent
AppFsDeleted(p) ==
  /\ n_events < MaxEvents
  /\ disk[p] # 0
  /\ n_events' = n_events + 1
  /\ disk' = [disk EXCEPT ![p] = 0]
  /\ SetCoalesceState(EnqueueAction(CoalesceState, "DELETE", p, 0))
  /\ last_action' = [last_action EXCEPT ![p] = "DELETE"]
  /\ UNCHANGED <<n_faults, worker_keys, worker_task, timers, retry_count,
                 errors, db_queue, app_db, app_failed>>
  /\ UNCHANGED nonAppVars

\* watcher: a file is moved; Indexer._enqueue_fsevent splits the event
AppFsMoved(src, dst) ==
  /\ n_events < MaxEvents
  /\ src # dst
  /\ disk[src] # 0
  /\ n_events' = n_events + 1
  /\ disk' = [disk EXCEPT ![src] = 0, ![dst] = disk[src]]
  /\ LET acts == split_moved_event(src, dst)
         st1 == EnqueueAction(CoalesceState, acts[1][1], acts[1][2], 0)
         st2 == EnqueueAction(st1, acts[2][1], acts[2][2], 0)
     IN SetCoalesceState(st2)
  /\ last_action' = [last_action EXCEPT ![src] = "DELETE", ![dst] = "INDEX"]
  /\ UNCHANGED <<n_faults, worker_keys, worker_task, timers, retry_count,
                 errors, db_queue, app_db, app_failed>>
  /\ UNCHANGED nonAppVars

\* Indexer._worker_loop: take a batch of keys from the event queue
WorkerGetBatch ==
  /\ worker_keys = <<>>
  /\ worker_task = NoTask
  /\ event_queue # <<>>
  /\ worker_keys' = DedupGetBatch(event_queue, GetBatchMax)
  /\ event_queue' = Suffix(event_queue, GetBatchMax)
  /\ UNCHANGED <<envVars, coalesce_map, worker_task, timers,
                 drop_count_degraded, retry_count, errors, last_action,
                 db_queue, app_db, app_failed>>
  /\ UNCHANGED nonAppVars

\* mutant of WorkerPop: the task is read and left in the map
WorkerPop_TaskStays ==
  /\ worker_keys # <<>>
  /\ worker_task = NoTask
  /\ LET key == Head(worker_keys)
         found == {t \in coalesce_map : t.path = key}
     IN /\ worker_task' = IF found = {} THEN NoTask ELSE CHOOSE t \in found : TRUE
        /\ coalesce_map' = coalesce_map
  /\ worker_keys' = Tail(worker_keys)
  /\ UNCHANGED <<envVars, event_queue, timers, drop_count_degraded,
                 retry_count, errors, last_action, db_queue, app_db, app_failed>>
  /\ UNCHANGED nonAppVars

\* Indexer._worker_loop: pop the task of the next key under the lock
WorkerPop ==
  /\ worker_keys # <<>>
  /\ worker_task = NoTask
  /\ LET key == Head(worker_keys)
         found == {t \in coalesce_map : t.path = key}
     IN /\ worker_task' = IF found = {} THEN NoTask ELSE CHOOSE t \in found : TRUE
        /\ coalesce_map' = coalesce_map \ found
  /\ worker_keys' = Tail(worker_keys)
  /\ UNCHANGED <<envVars, event_queue, timers, drop_count_degraded,
                 retry_count, errors, last_action, db_queue, app_db, app_failed>>
  /\ UNCHANGED nonAppVars

\* Indexer._worker_loop: a DELETE task becomes a delete_path
WorkerDelete ==
  /\ worker_task.action = "DELETE"
  /\ db_queue' = EnqueueDeletePath(db_queue, worker_task.path, 0)
  /\ worker_task' = NoTask
  /\ UNCHANGED <<envVars, coalesce_map, event_queue, worker_keys, timers,
                 drop_count_degraded, retry_count, errors, last_action,
                 app_db, app_failed>>
  /\ UNCHANGED nonAppVars

\* mutant of WorkerIndexMissing: a missing file is treated as an IO error
WorkerIndexMissing_Retries ==
  /\ worker_task.action = "INDEX"
  /\ disk[worker_task.path] = 0
  /\ RetryTask(worker_task)
  /\ worker_task' = NoTask
  /\ UNCHANGED <<envVars, coalesce_map, event_queue, worker_keys, errors,
                 last_action, db_queue, app_db, app_failed>>
  /\ UNCHANGED nonAppVars

\* Indexer._handle_index_task: the file is gone, synthesize a delete
WorkerIndexMissing ==
  /\ worker_task.action = "INDEX"
  /\ disk[worker_task.path] = 0
  /\ db_queue' = EnqueueDeletePath(db_queue, worker_task.path, 0)
  /\ worker_task' = NoTask
  /\ UNCHANGED <<envVars, coalesce_map, event_queue, worker_keys, timers,
                 drop_count_degraded, retry_count, errors, last_action,
                 app_db, app_failed>>
  /\ UNCHANGED nonAppVars

\* Indexer._handle_index_task: stat or read raises an IO or permission error
WorkerIndexIOError(phase) ==
  /\ worker_task.action = "INDEX"
  /\ disk[worker_task.path] # 0
  /\ n_faults < MaxFaults
  /\ n_faults' = n_faults + 1
  /\ errors' = IF phase = "process" THEN errors + 1 ELSE errors
  /\ RetryTask(worker_task)
  /\ worker_task' = NoTask
  /\ UNCHANGED <<disk, n_events, coalesce_map, event_queue, worker_keys,
                 last_action, db_queue, app_db, app_failed>>
  /\ UNCHANGED nonAppVars

\* Indexer._handle_index_task: any other exception is counted, twice
WorkerIndexError ==
  /\ worker_task.action = "INDEX"
  /\ disk[worker_task.path] # 0
  /\ n_faults < MaxFaults
  /\ n_faults' = n_faults + 1
  /\ errors' = errors + 2
  /\ worker_task' = NoTask
  /\ UNCHANGED <<disk, n_events, coalesce_map, event_queue, worker_keys,
                 timers, drop_count_degraded, retry_count, last_action,
                 db_queue, app_db, app_failed>>
  /\ UNCHANGED nonAppVars

\* Indexer._handle_index_task: nothing to write (unchanged, or above the cap)
WorkerIndexSkip(old, toobig) ==
  /\ worker_task.action = "INDEX"
  /\ disk[worker_task.path] # 0
  /\ Unchanged(worker_task.path, old) \/ toobig
  /\ toobig => n_faults < MaxFaults
  /\ n_faults' = IF toobig /\ ~Unchanged(worker_task.path, old)
                 THEN n_faults + 1 ELSE n_faults
  /\ worker_task' = NoTask
  /\ UNCHANGED <<disk, n_events, coalesce_map, event_queue, worker_keys,
                 timers, drop_count_degraded, retry_count, errors,
                 last_action, db_queue, app_db, app_failed>>
  /\ UNCHANGED nonAppVars

\* Indexer._handle_index_task: the file is read and its rows are queued
WorkerIndexOk(old) ==
  /\ worker_task.action = "INDEX"
  /\ disk[worker_task.path] # 0
  /\ ~Unchanged(worker_task.path, old)
  /\ db_queue' = EnqueueDbTasks(db_queue, worker_task.path,
                                disk[worker_task.path], 0)
  /\ worker_task' = NoTask
  /\ UNCHANGED <<envVars, coalesce_map, event_queue, worker_keys, timers,
                 drop_count_degraded, retry_count, errors, last_action,
                 app_db, app_failed>>
  /\ UNCHANGED nonAppVars

\* the retry timer of Indexer._retry_task fires
TimerFire(i) ==
  /\ i \in 1..Len(timers)
  /\ SetCoalesceState(EnqueueAction(CoalesceState, timers[i].action,
                                    timers[i].path, timers[i].attempts))
  /\ timers' = RemoveAt(timers, i)
  /\ UNCHANGED <<envVars, worker_keys, worker_task, retry_count, errors,
                 last_action, db_queue, app_db, app_failed>>
  /\ UNCHANGED nonAppVars

\* DBWriter._run of app/indexer.py: one batch, one transaction
AppWriterRun(fail) ==
  /\ db_queue # <<>>
  /\ fail => n_faults < MaxFaults
  /\ n_faults' = IF fail THEN n_faults + 1 ELSE n_faults
  /\ LET tasks == Prefix(db_queue, max_batch) IN
       /\ app_db' = IF fail THEN app_db ELSE AppProcessBatch(app_db, tasks)
       /\ app_failed' = IF fail THEN app_failed + 1 ELSE app_failed
  /\ db_queue' = Suffix(db_queue, max_batch)
  /\ UNCHANGED <<disk, n_events, coalesce_map, event_queue, worker_keys,
                 worker_task, timers, drop_count_degraded, retry_count,
                 errors, last_action>>
  /\ UNCHANGED nonAppVars

NextApp ==
  \/ \E p \in Paths, v \in 1..MaxVer : AppFsModified(p, v)
  \/ \E p \in Paths : AppFsDeleted(p)
  \/ \E src \in Paths, dst \in Paths : AppFsMoved(src, dst)
  \/ WorkerGetBatch
  \/ WorkerPop
  \/ WorkerDelete
  \/ WorkerIndexMissing
  \/ \E phase \in {"stat", "process"} : WorkerIndexIOError(phase)
  \/ WorkerIndexError
  \/ \E old \in BOOLEAN, toobig \in BOOLEAN : WorkerIndexSkip(old, toobig)
  \/ \E old \in BOOLEAN : WorkerIndexOk(old)
  \/ \E i \in 1..MaxFaults : TimerFire(i)
  \/ \E fail \in BOOLEAN : AppWriterRun(fail)

InitSari ==
  /\ priority_queue = <<>>
  /\ status_errors = 0
  /\ queue = <<>>
  /\ db = [files |-> EmptyTable, symbols |-> EmptyTable, relations |-> EmptyTable,
           failed |-> {}, repo_meta |-> {}, src |-> EmptyTable, del |-> EmptyTable]
  /\ engine_docs = {}
  /\ engine_up = TRUE
  /\ last_batch = <<>>
  /\ run_log = <<>>
  /\ run_ops = <<>>
  /\ run_singles = <<>>
  /\ run_engine_failed = FALSE
  /\ skipped = {}
  /\ n_extra = 0

InitGate ==
  /\ gate_lock = 0
  /\ gate_pc = [w \in Procs |-> "drain"]
  /\ gate_queue = [w \in Procs |-> 0]
  /\ gate_batch = [w \in Procs |-> 0]
  /\ gate_single = [w \in Procs |-> 0]
  /\ gate_faults = 0

InitSched ==
  /\ sched_priority = <<>>
  /\ sched_fair = [r \in Roots |-> <<>>]
  /\ sched_rr = Len(RootOrder)
  /\ sched_wait = [r \in Roots |-> 0]
  /\ sched_log = <<>>
  /\ n_sched = 0

\* a files row: content version and last_seen; version 0 is "no row"
FilesRow(ver, seen) == [ver |-> ver, seen |-> seen]

NoRow == FilesRow(0, 0)

\* a scan_file task of the coordinator
ScanTask(path, scan_ts, fast_track, use_staging) ==
  [path |-> path, scan_ts |-> scan_ts, fast_track |-> fast_track,
   use_staging |-> use_staging]

NoScanTask == ScanTask("", 0, FALSE, FALSE)

\* the database may hold rows of an earlier run: version 1, seen at time 0
InitScan ==
  /\ clock = 1
  /\ scan_pc = "init"
  /\ scan_next = 1
  /\ scan_started_ts = 0
  /\ active_roots = {}
  /\ in_flight = [w \in Workers |-> NoScanTask]
  /\ l1_buffer = [p \in Paths |-> NoRow]
  /\ scan_queue = <<>>
  /\ live \in [Paths -> {NoRow, FilesRow(1, 0)}]
  /\ staging = [p \in Paths |-> NoRow]
  /\ scan_errors = 0
  /\ sql_threads = {}
  /\ pre_scan = [p \in Paths |-> NoRow]
  /\ merged_ts = 0
  /\ dry_seen = {}

\* the specifications of the other subsystems start from an empty database
InitScanIdle ==
  /\ InitScan
  /\ live = [p \in Paths |-> NoRow]

\* DBWriter.__init__
InitLife ==
  /\ writer_thread = "new"
  /\ stop_event = FALSE
  /\ writer_queue = 0
  /\ writer_batch = 0
  /\ last_commit_ts = 0
  /\ stop_pc = "idle"
  /\ stop_ret = FALSE
  /\ stop_drained = FALSE
  /\ life_enq = 0
  /\ life_faults = 0

NoToolCall == [tool |-> "none", format |-> "pack", limit |-> "none",
               offset |-> 0, summary |-> FALSE, total |-> 0]

InitToolsIdle ==
  /\ tool_req = NoToolCall
  /\ tool_returned = -1

\* Indexer.__init__ of app/indexer.py: nothing has asked for the stop
InitShut ==
  /\ shut_pc = "running"
  /\ drop_count_shutdown = 0

\* Indexer.__init__ of sari/core/indexer/main.py with a process pool
InitPool ==
  /\ futures = {}
  /\ use_process_pool = TRUE
  /\ pool_next = 1
  /\ loop_pc = [w \in Workers |-> "top"]
  /\ finalized = [t \in PoolTasks |-> 0]
  /\ pool_failed = [t \in PoolTasks |-> 0]
  /\ affected = {}
  /\ pool_faults = 0

\* no thread holds a lock
InitLocks ==
  /\ lock_pc = [th \in LockThreads |-> 1]
  /\ lock_held = [th \in LockThreads |-> <<>>]

\* an empty Registry and sessions that have just connected
InitRegistry ==
  /\ reg_workspaces = {}
  /\ ref_count = [w \in Workspaces |-> 0]
  /\ shutdowns = [w \in Workspaces |-> 0]
  /\ created = [w \in Workspaces |-> 0]
  /\ workspace_root = [s \in Sessions |-> NoRoot]
  /\ session_open = [s \in Sessions |-> TRUE]
  /\ n_init = 0
  /\ reg_faults = 0

\* no daemon runs and every proxy is about to call start_daemon_if_needed
InitProxy ==
  /\ proxy_pc = [p \in Proxies |-> "start"]
  /\ proxy_polls = [p \in Proxies |-> 0]
  /\ proxy_ret = [p \in Proxies |-> "none"]
  /\ daemon_lock = 0
  /\ spawned = 0
  /\ listening = FALSE

InitLate == InitShut /\ InitPool /\ InitLocks /\ InitRegistry /\ InitProxy

InitSide == InitLife /\ InitToolsIdle /\ InitLate

InitAux == InitGate /\ InitSched /\ InitScanIdle /\ InitSide

vars == <<envVars, appVars, sariVars, auxVars>>

InitAppSpec == InitEnv /\ InitApp /\ InitSari /\ InitAux

SpecApp == InitAppSpec /\ [][NextApp]_vars

\* the worker thread of Indexer: one turn of _worker_loop or of the task
\* it is handling
WorkerThreadStep ==
  \/ WorkerGetBatch
  \/ WorkerPop
  \/ WorkerDelete
  \/ WorkerIndexMissing
  \/ \E phase \in {"stat", "process"} : WorkerIndexIOError(phase)
  \/ WorkerIndexError
  \/ \E old \in BOOLEAN, toobig \in BOOLEAN : WorkerIndexSkip(old, toobig)
  \/ \E old \in BOOLEAN : WorkerIndexOk(old)

\* the pipeline with fewer events and failures, and a worker thread that
\* keeps running
NextCoalesce ==
  /\ NextApp
  /\ n_events' <= MaxCoalesceEvents
  /\ n_faults' <= MaxCoalesceFaults

SpecAppFair == InitAppSpec /\ [][NextCoalesce]_vars /\ WF_vars(WorkerThreadStep)

\* ========================================================================
\*                  sari/core/indexer/db_writer.py : DBWriter
\* ========================================================================

RECURSIVE ApplySeqs(_, _)
ApplySeqs(tbl, rows) ==
  IF rows = <<>> THEN tbl
  ELSE ApplySeqs([tbl EXCEPT ![Head(rows).path] = Head(rows).seq], Tail(rows))

RECURSIVE MaxSeqOf(_, _)
MaxSeqOf(rows, p) ==
  IF rows = <<>> THEN 0
  ELSE Max(IF Head(rows).path = p THEN Head(rows).seq ELSE 0, MaxSeqOf(Tail(rows), p))

Poisoned(rows, poison) == \E i \in 1..Len(rows) : rows[i] \in poison

DocPaths(rows) == {rows[i].path : i \in {j \in 1..Len(rows) : rows[j].doc}}

\* the state a transaction works on: the tables as the cursor sees them, the
\* engine, the operations executed so far and whether one of them raised
TxState(d, e) ==
  [db |-> d, eng |-> e, ops |-> <<>>, ok |-> TRUE, engine_failed |-> FALSE]

\* _process_batch: DELETE FROM files for every delete_path; a statement that
\* raises is logged and skipped.  The delete cascades to the symbols and
\* relations of the path (foreign keys of the schema).
StepDelete(s, tasks, poison) ==
  LET dels == TasksOfKind(tasks, "delete_path")
      applied == {dels[i].path : i \in {j \in 1..Len(dels) : dels[j] \notin poison}}
  IN IF dels = <<>> THEN s
     ELSE [s EXCEPT
            !.db = [@ EXCEPT
                     !.files = [p \in Paths |-> IF p \in applied THEN 0 ELSE @[p]],
                     !.symbols = [p \in Paths |-> IF p \in applied THEN 0 ELSE @[p]],
                     !.relations = [p \in Paths |-> IF p \in applied THEN 0 ELSE @[p]],
                     !.src = [p \in Paths |-> IF p \in applied THEN MaxSeqOf(dels, p) ELSE @[p]],
                     !.del = [p \in Paths |-> IF p \in applied
                                              THEN Max(@[p], MaxSeqOf(dels, p)) ELSE @[p]]],
            !.ops = Append(@, "delete_path")]

\* _process_batch: upsert_files_tx
StepUpsertFiles(s, tasks, poison) ==
  LET rows == TasksOfKind(tasks, "upsert_files") IN
  IF ~s.ok \/ rows = <<>> THEN s
  ELSE IF Poisoned(rows, poison)
       THEN [s EXCEPT !.ok = FALSE, !.ops = Append(@, "upsert_files")]
       ELSE [s EXCEPT
              !.db = [@ EXCEPT !.files = ApplyRows(@, rows), !.src = ApplySeqs(@, rows)],
              !.ops = Append(@, "upsert_files")]

\* _process_batch: upsert_symbols_tx
StepUpsertSymbols(s, tasks, poison) ==
  LET rows == TasksOfKind(tasks, "upsert_symbols") IN
  IF ~s.ok \/ rows = <<>> THEN s
  ELSE IF Poisoned(rows, poison)
       THEN [s EXCEPT !.ok = FALSE, !.ops = Append(@, "upsert_symbols")]
       ELSE [s EXCEPT !.db = [@ EXCEPT !.symbols = ApplyRows(@, rows)],
                      !.ops = Append(@, "upsert_symbols")]

\* _process_batch: upsert_relations_tx
StepUpsertRelations(s, tasks, poison) ==
  LET rows == TasksOfKind(tasks, "upsert_relations") IN
  IF ~s.ok \/ rows = <<>> THEN s
  ELSE IF Poisoned(rows, poison)
       THEN [s EXCEPT !.ok = FALSE, !.ops = Append(@, "upsert_relations")]
       ELSE [s EXCEPT !.db = [@ EXCEPT !.relations = ApplyRows(@, rows)],
                      !.ops = Append(@, "upsert_relations")]

\* _process_batch: update_last_seen_tx
StepUpdateLastSeen(s, tasks, poison) ==
  LET rows == TasksOfKind(tasks, "update_last_seen") IN
  IF ~s.ok \/ rows = <<>> THEN s
  ELSE IF Poisoned(rows, poison)
       THEN [s EXCEPT !.ok = FALSE, !.ops = Append(@, "update_last_seen")]
       ELSE [s EXCEPT !.ops = Append(@, "update_last_seen")]

\* _process_batch: upsert_repo_meta_tx
StepRepoMeta(s, tasks, poison) ==
  LET rows == TasksOfKind(tasks, "upsert_repo_meta") IN
  IF ~s.ok \/ rows = <<>> THEN s
  ELSE IF Poisoned(rows, poison)
       THEN [s EXCEPT !.ok = FALSE, !.ops = Append(@, "upsert_repo_meta")]
       ELSE [s EXCEPT !.db = [@ EXCEPT !.repo_meta = @ \cup TaskPaths(tasks, "upsert_repo_meta")],
                      !.ops = Append(@, "upsert_repo_meta")]

\* _process_batch: upsert_failed_tasks_tx
StepDlqUpsert(s, tasks, poison) ==
  LET rows == TasksOfKind(tasks, "dlq_upsert") IN
  IF ~s.ok \/ rows = <<>> THEN s
  ELSE IF Poisoned(rows, poison)
       THEN [s EXCEPT !.ok = FALSE, !.ops = Append(@, "dlq_upsert")]
       ELSE [s EXCEPT !.db = [@ EXCEPT !.failed = @ \cup TaskPaths(tasks, "dlq_upsert")],
                      !.ops = Append(@, "dlq_upsert")]

\* _process_batch: clear_failed_tasks_tx
StepDlqClear(s, tasks, poison) ==
  LET rows == TasksOfKind(tasks, "dlq_clear") IN
  IF ~s.ok \/ rows = <<>> THEN s
  ELSE IF Poisoned(rows, poison)
       THEN [s EXCEPT !.ok = FALSE, !.ops = Append(@, "dlq_clear")]
       ELSE [s EXCEPT !.db = [@ EXCEPT !.failed = @ \ TaskPaths(tasks, "dlq_clear")],
                      !.ops = Append(@, "dlq_clear")]

\* _process_batch: engine.upsert_documents, called inside the transaction
StepEngineUpsert(s, tasks, up) ==
  LET docs == DocPaths(TasksOfKind(tasks, "upsert_files")) IN
  IF ~s.ok \/ docs = {} THEN s
  ELSE IF ~up
       THEN [s EXCEPT !.ok = FALSE, !.engine_failed = TRUE,
                      !.ops = Append(@, "engine_upsert")]
       ELSE [s EXCEPT !.eng = @ \cup docs, !.ops = Append(@, "engine_upsert")]

\* _process_batch: engine.delete_documents, called inside the transaction
StepEngineDelete(s, tasks, up) ==
  LET dels == DocPaths(TasksOfKind(tasks, "delete_path")) IN
  IF ~s.ok \/ dels = {} THEN s
  ELSE IF ~up
       THEN [s EXCEPT !.ok = FALSE, !.engine_failed = TRUE,
                      !.ops = Append(@, "engine_delete")]
       ELSE [s EXCEPT !.eng = @ \ dels, !.ops = Append(@, "engine_delete")]

\* _process_batch after the files rows: the later statements in their order
AfterFiles(s, tasks, poison, up) ==
  StepEngineDelete(
    StepEngineUpsert(
      StepDlqClear(
        StepDlqUpsert(
          StepRepoMeta(
            StepUpdateLastSeen(
              StepUpsertRelations(
                StepUpsertSymbols(s, tasks, poison),
                tasks, poison),
              tasks, poison),
            tasks, poison),
          tasks, poison),
        tasks, poison),
      tasks, up),
    tasks, up)

\* mutant of ProcessBatch: the files rows are written before the deletes run
ProcessBatch_UpsertFirst(d, e, tasks, poison, up) ==
  AfterFiles(StepDelete(StepUpsertFiles(TxState(d, e), tasks, poison), tasks, poison),
             tasks, poison, up)

\* DBWriter._process_batch
ProcessBatch(d, e, tasks, poison, up) ==
  AfterFiles(StepUpsertFiles(StepDelete(TxState(d, e), tasks, poison), tasks, poison),
             tasks, poison, up)

\* cur.execute("BEGIN") raises when the database is locked
Attempt(d, e, tasks, poison, up, busy) ==
  IF busy THEN [TxState(d, e) EXCEPT !.ok = FALSE]
  ELSE ProcessBatch(d, e, tasks, poison, up)

\* mutant of Rollback: what the failed transaction wrote stays
Rollback_KeepsWrites(before, partial) == partial

\* conn.rollback(): the tables are what they were at BEGIN
Rollback(before, partial) == before

\* DBWriter._run, except branch, one task: a is what its transaction did;
\* it is committed, or rolled back, logged and skipped
SingleOutcome(acc, t, a) ==
  IF a.ok
  THEN [acc EXCEPT !.db = a.db, !.eng = a.eng,
                   !.log = @ \o <<"BEGIN", "COMMIT">>,
                   !.singles = Append(@, [task |-> t, ok |-> TRUE])]
  ELSE [acc EXCEPT !.db = Rollback(acc.db, a.db), !.eng = a.eng,
                   !.log = @ \o <<"BEGIN", "ROLLBACK">>,
                   !.engine_failed = @ \/ a.engine_failed,
                   !.singles = Append(@, [task |-> t, ok |-> FALSE])]

\* mutant of RetryIndividually: the first task that fails again ends the retries
RECURSIVE RetryIndividually_StopAtFailure(_, _, _, _)
RetryIndividually_StopAtFailure(acc, tasks, poison, up) ==
  IF tasks = <<>> \/ (acc.singles # <<>> /\ ~acc.singles[Len(acc.singles)].ok) THEN acc
  ELSE RetryIndividually_StopAtFailure(
         SingleOutcome(acc, Head(tasks),
                       ProcessBatch(acc.db, acc.eng, <<Head(tasks)>>, poison, up)),
         Tail(tasks), poison, up)

\* DBWriter._run, except branch: every task of the batch, each in a
\* transaction of its own
RECURSIVE RetryIndividually(_, _, _, _)
RetryIndividually(acc, tasks, poison, up) ==
  IF tasks = <<>> THEN acc
  ELSE RetryIndividually(
         SingleOutcome(acc, Head(tasks),
                       ProcessBatch(acc.db, acc.eng, <<Head(tasks)>>, poison, up)),
         Tail(tasks), poison, up)

\* DBWriter._run, one iteration: a is what the transaction of the batch did
BatchOutcome(d, a, tasks, poison, up) ==
  IF a.ok
  THEN [db |-> a.db, eng |-> a.eng, log |-> <<"BEGIN", "COMMIT">>, ops |-> a.ops,
        singles |-> <<>>, engine_failed |-> FALSE]
  ELSE RetryIndividually(
         [db |-> Rollback(d, a.db), eng |-> a.eng, log |-> <<"BEGIN", "ROLLBACK">>,
          ops |-> a.ops, singles |-> <<>>, engine_failed |-> a.engine_failed],
         tasks, poison, up)

\* DBWriter._run: one iteration of the loop on a drained batch
RunIteration(d, e, tasks, poison, up, busy) ==
  BatchOutcome(d, Attempt(d, e, tasks, poison, up, busy), tasks, poison, up)

\* DBWriter._run: the size of the next batch
BatchLimit(throttled) ==
  IF throttled THEN 1
  ELSE IF Len(queue) >= max_batch THEN max_batch ELSE Max(1, Len(queue))

IsFilesWrite(t) == t.kind \in {"upsert_files", "delete_path"}

\* history: the paths whose last files write the writer did not commit
RECURSIVE SkippedAfter(_, _, _)
SkippedAfter(sk, attempts, poison) ==
  IF attempts = <<>> THEN sk
  ELSE LET x == Head(attempts)
           sk1 == IF ~IsFilesWrite(x.task) THEN sk
                  ELSE IF x.ok /\ x.task \notin poison THEN sk \ {x.task.path}
                  ELSE sk \cup {x.task.path}
       IN SkippedAfter(sk1, Tail(attempts), poison)

AsAttempts(tasks, ok) == [i \in 1..Len(tasks) |-> [task |-> tasks[i], ok |-> ok]]

\* ========================================================================
\*                          SpecWriter : actions
\* ========================================================================

ScanFileTask(path, seq) == [path |-> path, seq |-> seq]

\* Indexer._enqueue_fsevent, CREATED or MODIFIED: a fast-track priority task
SariFsCreated(p, v) ==
  /\ n_events < MaxWriterEvents
  /\ n_events' = n_events + 1
  /\ disk' = [disk EXCEPT ![p] = v]
  /\ priority_queue' = Append(priority_queue, ScanFileTask(p, n_events + 1))
  /\ UNCHANGED <<n_faults, status_errors, queue, db, engine_docs, engine_up,
                 last_batch, run_log, run_ops, run_singles, run_engine_failed, skipped, n_extra>>
  /\ UNCHANGED nonSariVars

\* Indexer._enqueue_fsevent, DELETED: the delete goes straight to the writer
SariFsDeleted(p) ==
  /\ n_events < MaxWriterEvents
  /\ disk[p] # 0
  /\ n_events' = n_events + 1
  /\ disk' = [disk EXCEPT ![p] = 0]
  /\ queue' = Append(queue, DbTask("delete_path", p, 0, TRUE, n_events + 1))
  /\ UNCHANGED <<n_faults, priority_queue, status_errors, db, engine_docs,
                 engine_up, last_batch, run_log, run_ops, run_singles, run_engine_failed, skipped,
                 n_extra>>
  /\ UNCHANGED nonSariVars

\* Indexer._enqueue_fsevent, MOVED: delete the old path, index the new one
SariFsMoved(src, dst) ==
  /\ n_events < MaxWriterEvents
  /\ src # dst
  /\ disk[src] # 0
  /\ n_events' = n_events + 1
  /\ disk' = [disk EXCEPT ![src] = 0, ![dst] = disk[src]]
  /\ queue' = Append(queue, DbTask("delete_path", src, 0, TRUE, n_events + 1))
  /\ priority_queue' = Append(priority_queue, ScanFileTask(dst, n_events + 1))
  /\ UNCHANGED <<n_faults, status_errors, db, engine_docs, engine_up,
                 last_batch, run_log, run_ops, run_singles, run_engine_failed, skipped, n_extra>>
  /\ UNCHANGED nonSariVars

\* Indexer._handle_task: the file of the task is gone, the task fails
SariWorkerFailed ==
  /\ priority_queue # <<>>
  /\ disk[Head(priority_queue).path] = 0
  /\ priority_queue' = Tail(priority_queue)
  /\ status_errors' = status_errors + 1
  /\ UNCHANGED <<envVars, queue, db, engine_docs, engine_up, last_batch,
                 run_log, run_ops, run_singles, run_engine_failed, skipped, n_extra>>
  /\ UNCHANGED nonSariVars

\* Indexer._finalize_file_indexing, "unchanged": only last_seen is refreshed
SariWorkerUnchanged ==
  /\ priority_queue # <<>>
  /\ LET t == Head(priority_queue) IN
       /\ disk[t.path] # 0
       /\ db.files[t.path] = disk[t.path]
       /\ queue' = Append(queue, DbTask("update_last_seen", t.path, 0, FALSE, 0))
  /\ priority_queue' = Tail(priority_queue)
  /\ UNCHANGED <<envVars, status_errors, db, engine_docs, engine_up,
                 last_batch, run_log, run_ops, run_singles, run_engine_failed, skipped, n_extra>>
  /\ UNCHANGED nonSariVars

\* Indexer._finalize_file_indexing, fast track: the files row with its engine
\* document, then the symbols, then the relations
SariWorkerIndexed ==
  /\ priority_queue # <<>>
  /\ LET t == Head(priority_queue)
         v == disk[t.path]
     IN /\ v # 0
        /\ queue' = queue \o <<DbTask("upsert_files", t.path, v, TRUE, t.seq)>>
                      \o (IF HasSymbols(v)
                          THEN <<DbTask("upsert_symbols", t.path, v, FALSE, 0),
                                 DbTask("upsert_relations", t.path, v, FALSE, 0)>>
                          ELSE <<>>)
  /\ priority_queue' = Tail(priority_queue)
  /\ UNCHANGED <<envVars, status_errors, db, engine_docs, engine_up,
                 last_batch, run_log, run_ops, run_singles, run_engine_failed, skipped, n_extra>>
  /\ UNCHANGED nonSariVars

\* DBWriter.enqueue of the metadata of a repository
EnqueueRepoMeta(p) ==
  /\ n_extra < MaxExtra
  /\ n_extra' = n_extra + 1
  /\ queue' = Append(queue, DbTask("upsert_repo_meta", p, 0, FALSE, 0))
  /\ UNCHANGED <<envVars, priority_queue, status_errors, db, engine_docs,
                 engine_up, last_batch, run_log, run_ops, run_singles, run_engine_failed, skipped>>
  /\ UNCHANGED nonSariVars

\* the paths whose engine sync failed in the last iteration of the writer
EngineAffected ==
  IF run_engine_failed
  THEN {run_singles[i].task.path :
          i \in {j \in 1..Len(run_singles) :
                   ~run_singles[j].ok /\ run_singles[j].task.doc}}
  ELSE {}

\* failed task (dead-letter): a path whose engine sync failed is recorded
DlqRecord(p) ==
  /\ p \in EngineAffected
  /\ p \notin db.failed \cup TaskPaths(queue, "dlq_upsert")
  /\ queue' = Append(queue, DbTask("dlq_upsert", p, 0, FALSE, 0))
  /\ UNCHANGED <<envVars, n_extra, priority_queue, status_errors, db, engine_docs,
                 engine_up, last_batch, run_log, run_ops, run_singles, run_engine_failed, skipped>>
  /\ UNCHANGED nonSariVars

\* failed task (dead-letter): the row of a path is pruned after its retry
DlqPrune(p) ==
  /\ p \in db.failed
  /\ p \notin TaskPaths(queue, "dlq_clear")
  /\ queue' = Append(queue, DbTask("dlq_clear", p, 0, FALSE, 0))
  /\ UNCHANGED <<envVars, n_extra, priority_queue, status_errors, db, engine_docs,
                 engine_up, last_batch, run_log, run_ops, run_singles, run_engine_failed, skipped>>
  /\ UNCHANGED nonSariVars

\* the external engine stops answering
EngineDown ==
  /\ engine_up
  /\ n_faults < MaxWriterFaults
  /\ n_faults' = n_faults + 1
  /\ engine_up' = FALSE
  /\ UNCHANGED <<disk, n_events, priority_queue, status_errors, queue, db,
                 engine_docs, last_batch, run_log, run_ops, run_singles, run_engine_failed,
                 skipped, n_extra>>
  /\ UNCHANGED nonSariVars

\* the external engine answers again
EngineUp ==
  /\ ~engine_up
  /\ engine_up' = TRUE
  /\ UNCHANGED <<envVars, priority_queue, status_errors, queue, db,
                 engine_docs, last_batch, run_log, run_ops, run_singles, run_engine_failed,
                 skipped, n_extra>>
  /\ UNCHANGED nonSariVars

\* DBWriter._run: drain a batch and handle it
WriterRun(throttled, poison, busy) ==
  /\ queue # <<>>
  /\ LET tasks == Prefix(queue, BatchLimit(throttled))
         nf == Cardinality(poison) + (IF busy THEN 1 ELSE 0)
     IN /\ poison \subseteq {tasks[i] : i \in 1..Len(tasks)}
        /\ n_faults + nf <= MaxWriterFaults
        /\ n_faults' = n_faults + nf
        /\ \E r \in {RunIteration(db, engine_docs, tasks, poison, engine_up, busy)} :
             /\ db' = r.db
             /\ engine_docs' = r.eng
             /\ run_log' = r.log
             /\ run_ops' = r.ops
             /\ run_singles' = r.singles
             /\ run_engine_failed' = r.engine_failed
             /\ skipped' = SkippedAfter(skipped,
                              IF r.singles = <<>> THEN AsAttempts(tasks, TRUE)
                              ELSE r.singles, poison)
        /\ last_batch' = tasks
        /\ queue' = Suffix(queue, BatchLimit(throttled))
  /\ UNCHANGED <<disk, n_events, priority_queue, status_errors, engine_up, n_extra>>
  /\ UNCHANGED nonSariVars

PoisonSets == SUBSET {queue[i] : i \in 1..Min(Len(queue), max_batch)}

NextWriter ==
  \/ \E p \in Paths, v \in 1..MaxVer : SariFsCreated(p, v)
  \/ \E p \in Paths : SariFsDeleted(p)
  \/ \E src \in Paths, dst \in Paths : SariFsMoved(src, dst)
  \/ SariWorkerFailed
  \/ SariWorkerUnchanged
  \/ SariWorkerIndexed
  \/ \E p \in Paths : EnqueueRepoMeta(p)
  \/ \E p \in Paths : DlqRecord(p)
  \/ \E p \in Paths : DlqPrune(p)
  \/ EngineDown
  \/ EngineUp
  \/ \E throttled \in BOOLEAN, poison \in PoisonSets, busy \in BOOLEAN :
       WriterRun(throttled, poison, busy)

InitWriterSpec == InitEnv /\ InitApp /\ InitSari /\ InitAux

SpecWriter == InitWriterSpec /\ [][NextWriter]_vars

\* ========================================================================
\*      sari/core/indexer/db_writer.py : _WriteGate, one DBWriter per process
\* ========================================================================
\* Several daemons open the same database path; each runs DBWriter._run on
\* its own connection and its own _WriteGate over <db_path>.write.lock.
\* Positions of a writer thread in _run:
\*   "drain"   waiting in _drain_batch
\*   "enter"   in _WriteGate.__enter__, blocked in flock(LOCK_EX)
\*   "begin"   inside the with block, before cur.execute("BEGIN")
\*   "tx"      after BEGIN, in _process_batch or conn.commit()
\*   "exit"    after conn.commit(), before _WriteGate.__exit__
\*   "raised"  an exception left the with block: __exit__ has run, the
\*             except clause has not rolled back yet

\* DBWriter.enqueue in process w
GateEnqueue(w) ==
  /\ gate_queue[w] < MaxGateTasks
  /\ gate_queue' = [gate_queue EXCEPT ![w] = @ + 1]
  /\ UNCHANGED <<gate_lock, gate_pc, gate_batch, gate_single, gate_faults>>
  /\ UNCHANGED <<envVars, appVars, sariVars, sideVars, schedVars, scanVars>>

\* DBWriter._run: _drain_batch returned tasks
GateDrain(w) ==
  /\ gate_pc[w] = "drain"
  /\ gate_single[w] = 0
  /\ gate_queue[w] > 0
  /\ gate_batch' = [gate_batch EXCEPT ![w] = Min(gate_queue[w], max_batch)]
  /\ gate_queue' = [gate_queue EXCEPT ![w] = @ - Min(@, max_batch)]
  /\ gate_pc' = [gate_pc EXCEPT ![w] = "enter"]
  /\ UNCHANGED <<gate_lock, gate_single, gate_faults>>
  /\ UNCHANGED <<envVars, appVars, sariVars, sideVars, schedVars, scanVars>>

\* DBWriter._run: the next task of the individual retry loop
GateNextSingle(w) ==
  /\ gate_pc[w] = "drain"
  /\ gate_single[w] > 0
  /\ gate_pc' = [gate_pc EXCEPT ![w] = "enter"]
  /\ UNCHANGED <<gate_lock, gate_queue, gate_batch, gate_single, gate_faults>>
  /\ UNCHANGED <<envVars, appVars, sariVars, sideVars, schedVars, scanVars>>

\* _WriteGate.__enter__: flock(LOCK_EX) returns once no other process holds it
GateEnter(w) ==
  /\ gate_pc[w] = "enter"
  /\ gate_lock = 0
  /\ gate_lock' = w
  /\ gate_pc' = [gate_pc EXCEPT ![w] = "begin"]
  /\ UNCHANGED <<gate_queue, gate_batch, gate_single, gate_faults>>
  /\ UNCHANGED <<envVars, appVars, sariVars, sideVars, schedVars, scanVars>>

\* DBWriter._run: cur.execute("BEGIN")
GateBegin(w) ==
  /\ gate_pc[w] = "begin"
  /\ gate_pc' = [gate_pc EXCEPT ![w] = "tx"]
  /\ UNCHANGED <<gate_lock, gate_queue, gate_batch, gate_single, gate_faults>>
  /\ UNCHANGED <<envVars, appVars, sariVars, sideVars, schedVars, scanVars>>

\* DBWriter._run: _process_batch returned and conn.commit() succeeded
GateCommit(w) ==
  /\ gate_pc[w] = "tx"
  /\ gate_pc' = [gate_pc EXCEPT ![w] = "exit"]
  /\ UNCHANGED <<gate_lock, gate_queue, gate_batch, gate_single, gate_faults>>
  /\ UNCHANGED <<envVars, appVars, sariVars, sideVars, schedVars, scanVars>>

\* _WriteGate.__exit__ at the normal end of the with block
GateExit(w) ==
  /\ gate_pc[w] = "exit"
  /\ gate_lock' = IF gate_lock = w THEN 0 ELSE gate_lock
  /\ gate_single' = [gate_single EXCEPT ![w] = IF @ > 0 THEN @ - 1 ELSE 0]
  /\ gate_pc' = [gate_pc EXCEPT ![w] = "drain"]
  /\ UNCHANGED <<gate_queue, gate_batch, gate_faults>>
  /\ UNCHANGED <<envVars, appVars, sariVars, sideVars, schedVars, scanVars>>

\* DBWriter._run: _process_batch or conn.commit() raises; the exception leaves
\* the with block, so _WriteGate.__exit__ unlocks before the except clause
GateRaise(w) ==
  /\ gate_pc[w] = "tx"
  /\ gate_faults < MaxGateFaults
  /\ gate_faults' = gate_faults + 1
  /\ gate_lock' = IF gate_lock = w THEN 0 ELSE gate_lock
  /\ gate_pc' = [gate_pc EXCEPT ![w] = "raised"]
  /\ UNCHANGED <<gate_queue, gate_batch, gate_single>>
  /\ UNCHANGED <<envVars, appVars, sariVars, sideVars, schedVars, scanVars>>

\* DBWriter._run: the except clause, conn.rollback(); a failed batch is then
\* retried task by task, a failed single task is given up
GateRollback(w) ==
  /\ gate_pc[w] = "raised"
  /\ gate_single' = [gate_single EXCEPT
                       ![w] = IF @ > 0 THEN @ - 1 ELSE gate_batch[w]]
  /\ gate_pc' = [gate_pc EXCEPT ![w] = "drain"]
  /\ UNCHANGED <<gate_lock, gate_queue, gate_batch, gate_faults>>
  /\ UNCHANGED <<envVars, appVars, sariVars, sideVars, schedVars, scanVars>>

NextGate ==
  \E w \in Procs :
    \/ GateEnqueue(w)
    \/ GateDrain(w)
    \/ GateNextSingle(w)
    \/ GateEnter(w)
    \/ GateBegin(w)
    \/ GateCommit(w)
    \/ GateExit(w)
    \/ GateRaise(w)
    \/ GateRollback(w)

InitGateSpec == InitEnv /\ InitApp /\ InitSari /\ InitAux

SpecGate == InitGateSpec /\ [][NextGate]_vars

\* a connection is inside a write transaction from BEGIN to commit or rollback
InWriteTx(w) == gate_pc[w] \in {"tx", "raised"}

\* ========================================================================
\*           sari/core/scheduler/coordinator.py : SchedulingCoordinator
\* ========================================================================
\* Two queues: a priority queue, served first and in FIFO order, and a fair
\* queue partitioned by root-id and served round-robin over the roots.

\* SchedulingCoordinator.enqueue_priority
EnqueuePriorityOp(prio, root, task) == Append(prio, <<root, task>>)

\* SchedulingCoordinator.enqueue_fair
EnqueueFairOp(fair, root, task) == [fair EXCEPT ![root] = Append(@, task)]

\* the k-th root after position rr in the cyclic order of the roots
RootAfter(rr, k) == RootOrder[((rr + k - 1) % Len(RootOrder)) + 1]

RootIndex(r) == CHOOSE i \in 1..Len(RootOrder) : RootOrder[i] = r

\* mutant of GetNextTask: the fair queue is served while priority tasks wait
GetNextTask_FairFirst(prio, fair, rr) ==
  LET pending == {k \in 1..Len(RootOrder) : fair[RootAfter(rr, k)] # <<>>} IN
  IF pending # {}
  THEN LET k == CHOOSE i \in pending : \A j \in pending : i <= j
           r == RootAfter(rr, k)
       IN [kind |-> "fair", root |-> r, task |-> Head(fair[r]),
           prio |-> prio, fair |-> [fair EXCEPT ![r] = Tail(@)],
           rr |-> RootIndex(r)]
  ELSE IF prio # <<>>
  THEN [kind |-> "priority", root |-> prio[1][1], task |-> prio[1][2],
        prio |-> Tail(prio), fair |-> fair, rr |-> rr]
  ELSE [kind |-> "none", root |-> "", task |-> 0,
        prio |-> prio, fair |-> fair, rr |-> rr]

\* mutant of GetNextTask: the fair queue is served in the order of the roots,
\* the first root with pending tasks first
GetNextTask_FirstRoot(prio, fair, rr) ==
  LET pending == {k \in 1..Len(RootOrder) : fair[RootOrder[k]] # <<>>} IN
  IF prio # <<>>
  THEN [kind |-> "priority", root |-> prio[1][1], task |-> prio[1][2],
        prio |-> Tail(prio), fair |-> fair, rr |-> rr]
  ELSE IF pending # {}
  THEN LET k == CHOOSE i \in pending : \A j \in pending : i <= j
           r == RootOrder[k]
       IN [kind |-> "fair", root |-> r, task |-> Head(fair[r]),
           prio |-> prio, fair |-> [fair EXCEPT ![r] = Tail(@)],
           rr |-> RootIndex(r)]
  ELSE [kind |-> "none", root |-> "", task |-> 0,
        prio |-> prio, fair |-> fair, rr |-> rr]

\* SchedulingCoordinator.get_next_task: the hand-out and the queues after it
GetNextTask(prio, fair, rr) ==
  LET pending == {k \in 1..Len(RootOrder) : fair[RootAfter(rr, k)] # <<>>} IN
  IF prio # <<>>
  THEN [kind |-> "priority", root |-> prio[1][1], task |-> prio[1][2],
        prio |-> Tail(prio), fair |-> fair, rr |-> rr]
  ELSE IF pending # {}
  THEN LET k == CHOOSE i \in pending : \A j \in pending : i <= j
           r == RootAfter(rr, k)
       IN [kind |-> "fair", root |-> r, task |-> Head(fair[r]),
           prio |-> prio, fair |-> [fair EXCEPT ![r] = Tail(@)],
           rr |-> RootIndex(r)]
  ELSE [kind |-> "none", root |-> "", task |-> 0,
        prio |-> prio, fair |-> fair, rr |-> rr]

\* Indexer._enqueue_fsevent / _retry_failed_tasks: a priority task for a root
SchedEnqueuePriority(r) ==
  /\ n_sched < MaxSchedOps
  /\ n_sched' = n_sched + 1
  /\ sched_priority' = EnqueuePriorityOp(sched_priority, r, n_sched + 1)
  /\ UNCHANGED <<sched_fair, sched_rr, sched_wait, sched_log>>
  /\ UNCHANGED <<envVars, appVars, sariVars, sideVars, gateVars, scanVars>>

\* Indexer.scan_once: a scan_file task of a root goes to the fair queue
SchedEnqueueFair(r) ==
  /\ n_sched < MaxSchedOps
  /\ Len(sched_fair[r]) < MaxFairLen
  /\ n_sched' = n_sched + 1
  /\ sched_fair' = EnqueueFairOp(sched_fair, r, n_sched + 1)
  /\ UNCHANGED <<sched_priority, sched_rr, sched_wait, sched_log>>
  /\ UNCHANGED <<envVars, appVars, sariVars, sideVars, gateVars, scanVars>>

\* Indexer._worker_loop: item = self.coordinator.get_next_task()
SchedGetNext ==
  /\ \E g \in {GetNextTask(sched_priority, sched_fair, sched_rr)} :
       /\ g.kind # "none"
       /\ sched_priority' = g.prio
       /\ sched_fair' = g.fair
       /\ sched_rr' = g.rr
       /\ sched_log' = Append(sched_log, g.kind)
       /\ sched_wait' =
            IF g.kind = "fair"
            THEN [r \in Roots |->
                    IF r = g.root \/ sched_fair[r] = <<>>
                    THEN 0 ELSE sched_wait[r] + 1]
            ELSE sched_wait
  /\ UNCHANGED n_sched
  /\ UNCHANGED <<envVars, appVars, sariVars, sideVars, gateVars, scanVars>>

NextSched ==
  \/ \E r \in Roots : SchedEnqueuePriority(r)
  \/ \E r \in Roots : SchedEnqueueFair(r)
  \/ SchedGetNext

InitSchedSpec == InitEnv /\ InitApp /\ InitSari /\ InitAux

SpecSched == InitSchedSpec /\ [][NextSched]_vars

\* ========================================================================
\*        sari/core/indexer/main.py : full scan, staging, prune and merge
\* ========================================================================
\* run_forever starts the worker loops and the watcher, then runs scan_once
\* and sets index_ready. Each root holds one file.
RootOf(p) == IF p = "a" THEN "r1" ELSE "r2"

\* a task of DBWriter.queue: kind and files rows <<path, row>>, or paths
WTask(kind, rows) == [kind |-> kind, rows |-> rows]

\* Indexer._enqueue_fsevent, CREATED or MODIFIED: a fast-track priority task
ScanFsModified(p, v) ==
  /\ n_events < MaxScanEvents
  /\ v # disk[p]
  /\ n_events' = n_events + 1
  /\ disk' = [disk EXCEPT ![p] = v]
  /\ sched_priority' = EnqueuePriorityOp(sched_priority, RootOf(p),
                                         ScanTask(p, clock, TRUE, FALSE))
  /\ UNCHANGED <<n_faults, sched_fair, sched_rr, sched_wait, sched_log, n_sched>>
  /\ UNCHANGED <<appVars, sariVars, sideVars, gateVars, scanVars>>

\* time passes
Tick ==
  /\ clock < MaxClock
  /\ clock' = clock + 1
  /\ UNCHANGED <<scan_pc, scan_next, scan_started_ts, active_roots, in_flight,
                 l1_buffer, scan_queue, live, staging, scan_errors,
                 sql_threads, pre_scan, merged_ts, dry_seen>>
  /\ UNCHANGED <<envVars, appVars, sariVars, sideVars, gateVars, schedVars>>

\* Indexer.scan_once, up to the loop over the roots
ScanStart ==
  /\ scan_pc = "init"
  /\ scan_pc' = "walk"
  /\ scan_next' = 1
  /\ scan_started_ts' = clock
  /\ active_roots' = {}
  /\ scan_queue' = Append(scan_queue, WTask("create_staging", <<>>))
  /\ pre_scan' = live
  /\ UNCHANGED <<clock, in_flight, l1_buffer, live, staging, scan_errors,
                 sql_threads, merged_ts, dry_seen>>
  /\ UNCHANGED <<envVars, appVars, sariVars, sideVars, gateVars, schedVars>>

\* the scan_file tasks of the files found under a root
RECURSIVE FairTasksOf(_, _, _)
FairTasksOf(fair, r, ps) ==
  IF ps = {} THEN fair
  ELSE LET p == CHOOSE x \in ps : TRUE IN
       FairTasksOf(IF RootOf(p) = r /\ disk[p] # 0
                   THEN EnqueueFairOp(fair, r,
                                      ScanTask(p, scan_started_ts, FALSE, TRUE))
                   ELSE fair,
                   r, ps \ {p})

\* Indexer.scan_once: one root of the loop, discovery of its files
ScanRoot ==
  /\ scan_pc = "walk"
  /\ scan_next <= Len(RootOrder)
  /\ active_roots' = active_roots \cup {RootOrder[scan_next]}
  /\ sched_fair' = FairTasksOf(sched_fair, RootOrder[scan_next], Paths)
  /\ scan_next' = scan_next + 1
  /\ UNCHANGED <<clock, scan_pc, scan_started_ts, in_flight, l1_buffer,
                 scan_queue, live, staging, scan_errors, sql_threads,
                 pre_scan, merged_ts, dry_seen>>
  /\ UNCHANGED <<sched_priority, sched_rr, sched_wait, sched_log, n_sched>>
  /\ UNCHANGED <<envVars, appVars, sariVars, sideVars, gateVars>>

\* Indexer.run_forever: scan_once has returned, index_ready = True
ScanDone ==
  /\ scan_pc = "walk"
  /\ scan_next > Len(RootOrder)
  /\ scan_pc' = "ready"
  /\ UNCHANGED <<clock, scan_next, scan_started_ts, active_roots, in_flight,
                 l1_buffer, scan_queue, live, staging, scan_errors,
                 sql_threads, pre_scan, merged_ts, dry_seen>>
  /\ UNCHANGED <<envVars, appVars, sariVars, sideVars, gateVars, schedVars>>

\* Indexer._worker_loop: get_next_task returns a task; it is handled by this
\* loop or by a process of the pool
WorkerTake(w) ==
  /\ in_flight[w] = NoScanTask
  /\ w \notin dry_seen
  /\ \E g \in {GetNextTask(sched_priority, sched_fair, sched_rr)} :
       /\ g.kind # "none"
       /\ in_flight' = [in_flight EXCEPT ![w] = g.task]
       /\ sched_priority' = g.prio
       /\ sched_fair' = g.fair
       /\ sched_rr' = g.rr
  /\ UNCHANGED <<sched_wait, sched_log, n_sched>>
  /\ UNCHANGED <<clock, scan_pc, scan_next, scan_started_ts, active_roots,
                 l1_buffer, scan_queue, live, staging, scan_errors,
                 sql_threads, pre_scan, merged_ts, dry_seen>>
  /\ UNCHANGED <<envVars, appVars, sariVars, sideVars, gateVars>>

\* the rows of the L1 buffer of a root, and the buffer without them
L1Rows(buf, r) ==
  LET ps == {p \in Paths : RootOf(p) = r /\ buf[p] # NoRow} IN
  IF ps = {} THEN <<>>
  ELSE LET p == CHOOSE x \in ps : TRUE IN <<<<p, buf[p]>>>>

L1Clear(buf, r) == [p \in Paths |-> IF RootOf(p) = r THEN NoRow ELSE buf[p]]

L1Size(buf, r) == Cardinality({p \in Paths : RootOf(p) = r /\ buf[p] # NoRow})

\* mutant of FinalizeFileIndexing: an unchanged file is indexed again
FinalizeFileIndexing_NoShortCircuit(w) ==
  LET task == in_flight[w]
      p == task.path
      row == FilesRow(disk[p], clock)
      buf == [l1_buffer EXCEPT ![p] = row]
  IN IF task.fast_track
     THEN /\ scan_queue' = Append(scan_queue, WTask("upsert_files", <<<<p, row>>>>))
          /\ UNCHANGED l1_buffer
     ELSE IF L1Size(buf, RootOf(p)) >= l1_max_size
     THEN /\ scan_queue' = Append(scan_queue,
                             WTask(IF task.use_staging
                                   THEN "upsert_files_staging"
                                   ELSE "upsert_files",
                                   L1Rows(buf, RootOf(p))))
          /\ l1_buffer' = L1Clear(buf, RootOf(p))
     ELSE /\ l1_buffer' = buf
          /\ UNCHANGED scan_queue

\* Indexer._finalize_file_indexing of a result other than None
FinalizeFileIndexing(w) ==
  LET task == in_flight[w]
      p == task.path
      row == FilesRow(disk[p], clock)
      buf == [l1_buffer EXCEPT ![p] = row]
  IN IF live[p].ver = disk[p]
     THEN /\ scan_queue' = Append(scan_queue, WTask("update_last_seen", <<p>>))
          /\ UNCHANGED l1_buffer
     ELSE IF task.fast_track
     THEN /\ scan_queue' = Append(scan_queue, WTask("upsert_files", <<<<p, row>>>>))
          /\ UNCHANGED l1_buffer
     ELSE IF L1Size(buf, RootOf(p)) >= l1_max_size
     THEN /\ scan_queue' = Append(scan_queue,
                             WTask(IF task.use_staging
                                   THEN "upsert_files_staging"
                                   ELSE "upsert_files",
                                   L1Rows(buf, RootOf(p))))
          /\ l1_buffer' = L1Clear(buf, RootOf(p))
     ELSE /\ l1_buffer' = buf
          /\ UNCHANGED scan_queue

\* Indexer._handle_task / _on_task_complete: the file was processed
WorkerFinalize(w) ==
  /\ in_flight[w] # NoScanTask
  /\ disk[in_flight[w].path] # 0
  /\ FinalizeFileIndexing(w)
  /\ in_flight' = [in_flight EXCEPT ![w] = NoScanTask]
  /\ UNCHANGED <<clock, scan_pc, scan_next, scan_started_ts, active_roots,
                 live, staging, scan_errors, sql_threads, pre_scan, merged_ts, dry_seen>>
  /\ UNCHANGED <<envVars, appVars, sariVars, sideVars, gateVars, schedVars>>

\* mutant of WorkerFail: the failure is not counted
WorkerFail_NotCounted(w) ==
  /\ in_flight[w] # NoScanTask
  /\ n_faults < MaxScanFaults
  /\ n_faults' = n_faults + 1
  /\ scan_errors' = scan_errors
  /\ in_flight' = [in_flight EXCEPT ![w] = NoScanTask]
  /\ UNCHANGED <<disk, n_events>>
  /\ UNCHANGED <<clock, scan_pc, scan_next, scan_started_ts, active_roots,
                 l1_buffer, scan_queue, live, staging, sql_threads, pre_scan,
                 merged_ts, dry_seen>>
  /\ UNCHANGED <<appVars, sariVars, sideVars, gateVars, schedVars>>

\* Indexer._handle_task: process_file_task returns None, _handle_failed_task
WorkerFail(w) ==
  /\ in_flight[w] # NoScanTask
  /\ n_faults < MaxScanFaults
  /\ n_faults' = n_faults + 1
  /\ scan_errors' = scan_errors + 1
  /\ in_flight' = [in_flight EXCEPT ![w] = NoScanTask]
  /\ UNCHANGED <<disk, n_events>>
  /\ UNCHANGED <<clock, scan_pc, scan_next, scan_started_ts, active_roots,
                 l1_buffer, scan_queue, live, staging, sql_threads, pre_scan,
                 merged_ts, dry_seen>>
  /\ UNCHANGED <<appVars, sariVars, sideVars, gateVars, schedVars>>

\* LocalSearchDB.prune_old_files: rows of the root seen before the scan
PruneOldFiles(tbl, r, ts) ==
  [p \in Paths |-> IF RootOf(p) = r /\ tbl[p].seen < ts THEN NoRow ELSE tbl[p]]

RECURSIVE PruneRoots(_, _, _)
PruneRoots(tbl, rs, ts) ==
  IF rs = {} THEN tbl
  ELSE LET r == CHOOSE x \in rs : TRUE IN
       PruneRoots(PruneOldFiles(tbl, r, ts), rs \ {r}, ts)

\* Indexer._trigger_staging_merge: the L1 buffers, then the merge task
RECURSIVE FlushL1(_, _, _)
FlushL1(q, buf, i) ==
  IF i > Len(RootOrder) THEN q
  ELSE FlushL1(IF L1Rows(buf, RootOrder[i]) = <<>> THEN q
               ELSE Append(q, WTask("upsert_files_staging",
                                    L1Rows(buf, RootOrder[i]))),
               buf, i + 1)

TriggerStagingMerge(q, buf) ==
  Append(FlushL1(q, buf, 1), WTask("staging_merge", <<>>))

\* Indexer._worker_loop: get_next_task returned nothing and the test
\* "index_ready and _active_roots" is true; the lock is not held yet
WorkerSeesDry(w) ==
  /\ in_flight[w] = NoScanTask
  /\ w \notin dry_seen
  /\ GetNextTask(sched_priority, sched_fair, sched_rr).kind = "none"
  /\ scan_pc = "ready"
  /\ active_roots # {}
  /\ dry_seen' = dry_seen \cup {w}
  /\ UNCHANGED <<clock, scan_pc, scan_next, scan_started_ts, active_roots,
                 in_flight, l1_buffer, scan_queue, live, staging, scan_errors,
                 sql_threads, pre_scan, merged_ts>>
  /\ UNCHANGED <<envVars, appVars, sariVars, sideVars, gateVars, schedVars>>

\* Indexer._worker_loop: the roots are taken under the lock, pruned, and the
\* staging merge is triggered
WorkerQueueDry(w) ==
  /\ w \in dry_seen
  /\ dry_seen' = dry_seen \ {w}
  /\ active_roots' = {}
  /\ live' = PruneRoots(live, active_roots, scan_started_ts)
  /\ sql_threads' = IF active_roots # {} THEN sql_threads \cup {"worker"}
                    ELSE sql_threads
  /\ scan_queue' = TriggerStagingMerge(scan_queue, l1_buffer)
  /\ l1_buffer' = [p \in Paths |-> NoRow]
  /\ UNCHANGED <<clock, scan_pc, scan_next, scan_started_ts, in_flight,
                 staging, scan_errors, pre_scan, merged_ts>>
  /\ UNCHANGED <<envVars, appVars, sariVars, sideVars, gateVars, schedVars>>

\* the files rows of the upsert tasks of a batch, in task order
RECURSIVE UpsertRowsOf(_)
UpsertRowsOf(tasks) ==
  IF tasks = <<>> THEN <<>>
  ELSE (IF Head(tasks).kind \in {"upsert_files", "upsert_files_staging"}
        THEN Head(tasks).rows ELSE <<>>) \o UpsertRowsOf(Tail(tasks))

RECURSIVE LastSeenPathsOf(_)
LastSeenPathsOf(tasks) ==
  IF tasks = <<>> THEN {}
  ELSE (IF Head(tasks).kind = "update_last_seen"
        THEN {Head(tasks).rows[i] : i \in 1..Len(Head(tasks).rows)} ELSE {})
       \cup LastSeenPathsOf(Tail(tasks))

RECURSIVE UpsertFilesRows(_, _)
UpsertFilesRows(tbl, rows) ==
  IF rows = <<>> THEN tbl
  ELSE UpsertFilesRows([tbl EXCEPT ![Head(rows)[1]] = Head(rows)[2]], Tail(rows))

\* LocalSearchDB.merge_staging_to_main: staged rows replace the live ones
MergeStagingToMain(d) ==
  [live |-> [p \in Paths |-> IF d.staging[p] # NoRow
                             THEN d.staging[p] ELSE d.live[p]],
   staging |-> [p \in Paths |-> NoRow]]

\* DBWriter._process_batch on the tables (live, staging)
StagingProcessBatch(d, tasks, commit_ts) ==
  LET has(kind) == \E i \in 1..Len(tasks) : tasks[i].kind = kind
      d0 == IF has("create_staging")
            THEN [d EXCEPT !.staging = [p \in Paths |-> NoRow]] ELSE d
      rows == UpsertRowsOf(tasks)
      d1 == IF has("upsert_files_staging")
            THEN [d0 EXCEPT !.staging = UpsertFilesRows(@, rows)]
            ELSE [d0 EXCEPT !.live = UpsertFilesRows(@, rows)]
      d2 == IF has("staging_merge") THEN MergeStagingToMain(d1) ELSE d1
      seen == LastSeenPathsOf(tasks)
  IN [d2 EXCEPT !.live = [p \in Paths |->
                            IF p \in seen /\ @[p] # NoRow
                            THEN FilesRow(@[p].ver, commit_ts) ELSE @[p]]]

\* DBWriter._run: one batch, one transaction
ScanWriterRun ==
  /\ scan_queue # <<>>
  /\ LET tasks == Prefix(scan_queue, max_batch)
         d == StagingProcessBatch([live |-> live, staging |-> staging],
                                  tasks, clock)
     IN /\ live' = d.live
        /\ staging' = d.staging
        /\ merged_ts' = IF \E i \in 1..Len(tasks) : tasks[i].kind = "staging_merge"
                        THEN scan_started_ts ELSE merged_ts
  /\ scan_queue' = Suffix(scan_queue, max_batch)
  /\ sql_threads' = sql_threads \cup {"writer"}
  /\ UNCHANGED <<clock, scan_pc, scan_next, scan_started_ts, active_roots,
                 in_flight, l1_buffer, scan_errors, pre_scan, dry_seen>>
  /\ UNCHANGED <<envVars, appVars, sariVars, sideVars, gateVars, schedVars>>

NextScan ==
  \/ \E p \in Paths, v \in 1..MaxVer : ScanFsModified(p, v)
  \/ Tick
  \/ ScanStart
  \/ ScanRoot
  \/ ScanDone
  \/ \E w \in Workers : WorkerTake(w)
  \/ \E w \in Workers : WorkerFinalize(w)
  \/ \E w \in Workers : WorkerFail(w)
  \/ \E w \in Workers : WorkerSeesDry(w)
  \/ \E w \in Workers : WorkerQueueDry(w)
  \/ ScanWriterRun

InitScanSpec ==
  InitEnv /\ InitApp /\ InitSari /\ InitGate /\ InitSched /\ InitScan /\ InitSide

SpecScan == InitScanSpec /\ [][NextScan]_vars

\* ------------------------------------------------------------------------
\* sari/core/indexer/db_writer.py DBWriter: start, enqueue, stop and _run.
\* The tasks are counted, not told apart.

ThreadAlive == writer_thread \in {"loop", "batch"}

\* DBWriter.start
LifeStart ==
  /\ writer_thread = "new"
  /\ writer_thread' = "loop"
  /\ UNCHANGED <<stop_event, writer_queue, writer_batch, last_commit_ts,
                 stop_pc, stop_ret, stop_drained, life_enq, life_faults>>
  /\ UNCHANGED <<envVars, appVars, sariVars, gateVars, schedVars, scanVars,
                 toolVars, lateVars>>

\* DBWriter.enqueue, k times: the tasks of a rescan
LifeEnqueue(k) ==
  /\ stop_pc = "idle"
  /\ life_enq + k <= MaxLifeTasks
  /\ life_enq' = life_enq + k
  /\ writer_queue' = writer_queue + k
  /\ UNCHANGED <<writer_thread, stop_event, writer_batch, last_commit_ts,
                 stop_pc, stop_ret, stop_drained, life_faults>>
  /\ UNCHANGED <<envVars, appVars, sariVars, gateVars, schedVars, scanVars,
                 toolVars, lateVars>>

\* DBWriter._run: the size of the next batch, then _drain_batch
WriterDrain(throttled) ==
  /\ writer_thread = "loop"
  /\ writer_queue > 0
  /\ LET current_max_batch == IF throttled THEN 1
                              ELSE IF writer_queue >= max_batch THEN max_batch
                              ELSE Max(1, writer_queue)
         n == Min(current_max_batch, writer_queue)
     IN /\ writer_batch' = n
        /\ writer_queue' = writer_queue - n
  /\ writer_thread' = "batch"
  /\ UNCHANGED <<stop_event, last_commit_ts, stop_pc, stop_ret, stop_drained,
                 life_enq, life_faults>>
  /\ UNCHANGED <<envVars, appVars, sariVars, gateVars, schedVars, scanVars,
                 toolVars, lateVars>>

\* DBWriter._run: the batch in one transaction; when it raises, each task in
\* a transaction of its own
WriterCommit(raised) ==
  /\ writer_thread = "batch"
  /\ raised => life_faults < MaxLifeFaults
  /\ life_faults' = IF raised THEN life_faults + 1 ELSE life_faults
  /\ last_commit_ts' = IF raised THEN last_commit_ts ELSE clock
  /\ writer_batch' = 0
  /\ writer_thread' = "loop"
  /\ UNCHANGED <<stop_event, writer_queue, stop_pc, stop_ret, stop_drained,
                 life_enq>>
  /\ UNCHANGED <<envVars, appVars, sariVars, gateVars, schedVars, scanVars,
                 toolVars, lateVars>>

\* DBWriter._run: the loop condition is false, the thread ends
WriterExit ==
  /\ writer_thread = "loop"
  /\ stop_event
  /\ writer_queue = 0
  /\ writer_thread' = "dead"
  /\ UNCHANGED <<stop_event, writer_queue, writer_batch, last_commit_ts,
                 stop_pc, stop_ret, stop_drained, life_enq, life_faults>>
  /\ UNCHANGED <<envVars, appVars, sariVars, gateVars, schedVars, scanVars,
                 toolVars, lateVars>>

\* DBWriter.stop returns "not self._thread.is_alive()"
StopReturn ==
  /\ stop_pc' = "returned"
  /\ stop_ret' = ~ThreadAlive
  /\ stop_drained' = (writer_queue = 0 /\ writer_batch = 0)

\* DBWriter.stop: the event is set; a thread that is not alive is not joined
StopCall ==
  /\ stop_pc = "idle"
  /\ stop_event' = TRUE
  /\ IF ThreadAlive
     THEN stop_pc' = "join" /\ UNCHANGED <<stop_ret, stop_drained>>
     ELSE StopReturn
  /\ UNCHANGED <<writer_thread, writer_queue, writer_batch, last_commit_ts,
                 life_enq, life_faults>>
  /\ UNCHANGED <<envVars, appVars, sariVars, gateVars, schedVars, scanVars,
                 toolVars, lateVars>>

\* DBWriter.stop: join returns because the thread has ended
StopJoined ==
  /\ stop_pc = "join"
  /\ writer_thread = "dead"
  /\ StopReturn
  /\ UNCHANGED <<writer_thread, stop_event, writer_queue, writer_batch,
                 last_commit_ts, life_enq, life_faults>>
  /\ UNCHANGED <<envVars, appVars, sariVars, gateVars, schedVars, scanVars,
                 toolVars, lateVars>>

\* DBWriter.stop: join returns because the timeout has elapsed
StopTimeout ==
  /\ stop_pc = "join"
  /\ ThreadAlive
  /\ StopReturn
  /\ UNCHANGED <<writer_thread, stop_event, writer_queue, writer_batch,
                 last_commit_ts, life_enq, life_faults>>
  /\ UNCHANGED <<envVars, appVars, sariVars, gateVars, schedVars, scanVars,
                 toolVars, lateVars>>

WriterThreadStep ==
  \/ \E throttled \in BOOLEAN : WriterDrain(throttled)
  \/ \E raised \in BOOLEAN : WriterCommit(raised)
  \/ WriterExit

NextLife ==
  \/ LifeStart
  \/ \E k \in 1..MaxLifeTasks : LifeEnqueue(k)
  \/ \E throttled \in BOOLEAN : WriterDrain(throttled)
  \/ \E raised \in BOOLEAN : WriterCommit(raised)
  \/ WriterExit
  \/ StopCall
  \/ StopJoined
  \/ StopTimeout

InitLifeSpec == InitEnv /\ InitApp /\ InitSari /\ InitAux

SpecLife == InitLifeSpec /\ [][NextLife]_vars

\* the writer thread is a running thread: it is scheduled again and again
SpecLifeFair == SpecLife /\ WF_vars(WriterThreadStep)

\* ------------------------------------------------------------------------
\* mcp/tools: search, list_files and search_symbols. A call is the argument
\* map, the encoding of DECKARD_FORMAT and the number of rows that match; the
\* response is the number of items returned. limit is <<>> when the argument
\* is absent and <<n>> when it is the integer n.
LimitValues == {0, 8, 20, 21, 50, 51, 200, 201, 500}
Totals == {0, 30, 60, 300, 600}
Offsets == {0, 5}

ToolCalls ==
  [tool : {"search", "list_files", "search_symbols"},
   format : {"pack", "json"},
   limit : {<<>>} \cup {<<n>> : n \in LimitValues},
   offset : Offsets,
   summary : BOOLEAN,
   total : Totals]

InitTools ==
  /\ tool_req \in ToolCalls
  /\ tool_returned = -1

\* args.get("limit", default)
LimitOf(req, default) == IF req.limit = <<>> THEN default ELSE req.limit[1]

\* LocalSearchDB.search_v2, list_files, search_symbols: at most limit rows of
\* the matching ones, from offset on
DbRows(total, limit, offset) == Min(limit, Max(total - offset, 0))

\* execute_search: the number of hits of the response
execute_search(req) ==
  LET limit_arg == Min(LimitOf(req, 8), 20)
      offset == Max(req.offset, 0)
  IN IF req.format = "pack"
     THEN DbRows(req.total, Min(limit_arg, 20), offset)
     ELSE DbRows(req.total, limit_arg, offset)

\* execute_list_files: the number of paths of the response
execute_list_files(req) ==
  LET limit_arg == LimitOf(req, 100)
  IN IF req.format = "pack"
     THEN DbRows(req.total, Min(limit_arg, 200), req.offset)
     ELSE IF req.summary THEN 0
     ELSE DbRows(req.total, limit_arg, req.offset)

\* execute_search_symbols: the number of symbols of the response
execute_search_symbols(req) == DbRows(req.total, LimitOf(req, 20), 0)

ToolSearch ==
  /\ tool_returned = -1
  /\ tool_req.tool = "search"
  /\ tool_returned' = execute_search(tool_req)
  /\ UNCHANGED tool_req
  /\ UNCHANGED <<envVars, appVars, sariVars, gateVars, schedVars, scanVars,
                 lifeVars, lateVars>>

ToolListFiles ==
  /\ tool_returned = -1
  /\ tool_req.tool = "list_files"
  /\ tool_returned' = execute_list_files(tool_req)
  /\ UNCHANGED tool_req
  /\ UNCHANGED <<envVars, appVars, sariVars, gateVars, schedVars, scanVars,
                 lifeVars, lateVars>>

ToolSearchSymbols ==
  /\ tool_returned = -1
  /\ tool_req.tool = "search_symbols"
  /\ tool_returned' = execute_search_symbols(tool_req)
  /\ UNCHANGED tool_req
  /\ UNCHANGED <<envVars, appVars, sariVars, gateVars, schedVars, scanVars,
                 lifeVars, lateVars>>

NextTools == ToolSearch \/ ToolListFiles \/ ToolSearchSymbols

InitToolsSpec ==
  /\ InitEnv /\ InitApp /\ InitSari
  /\ InitGate /\ InitSched /\ InitScanIdle /\ InitLife /\ InitTools /\ InitLate

SpecTools == InitToolsSpec /\ [][NextTools]_vars

\* ------------------------------------------------------------------------
\* app/indexer.py Indexer.stop and _drain_queues, next to the pipeline of
\* SpecApp. The worker loop runs while the stop event is clear or the event
\* queue is not empty, the writer while it is clear or its queue is not
\* empty: their steps stay possible after the stop.
nonShutVars == <<envVars, appVars, sariVars, gateVars, schedVars, scanVars,
                 lifeVars, toolVars, poolVars, lockVars,
                 regVars, proxyVars>>

\* Indexer.stop: the events are set, the watcher is stopped
AppStop ==
  /\ shut_pc = "running"
  /\ shut_pc' = "draining"
  /\ UNCHANGED drop_count_shutdown
  /\ UNCHANGED nonShutVars

\* Indexer._drain_queues: both queues are empty before the deadline
DrainEmpty ==
  /\ shut_pc = "draining"
  /\ Len(event_queue) + Len(db_queue) = 0
  /\ shut_pc' = "stopped"
  /\ UNCHANGED drop_count_shutdown
  /\ UNCHANGED nonShutVars

\* Indexer._drain_queues: the deadline has passed, what is queued is counted
DrainDeadline ==
  /\ shut_pc = "draining"
  /\ drop_count_shutdown' = drop_count_shutdown + Len(event_queue) + Len(db_queue)
  /\ shut_pc' = "stopped"
  /\ UNCHANGED nonShutVars

NextShut ==
  \/ /\ shut_pc = "running"
     /\ n_events < MaxShutEvents
     /\ \/ \E p \in Paths, v \in 1..MaxVer : AppFsModified(p, v)
        \/ \E p \in Paths : AppFsDeleted(p)
  \/ WorkerGetBatch
  \/ WorkerPop
  \/ WorkerDelete
  \/ WorkerIndexMissing
  \/ \E old \in BOOLEAN : WorkerIndexOk(old)
  \/ AppWriterRun(FALSE)
  \/ AppStop
  \/ DrainEmpty
  \/ DrainDeadline

InitShutSpec == InitEnv /\ InitApp /\ InitSari /\ InitAux

SpecShut == InitShutSpec /\ [][NextShut]_vars

\* ------------------------------------------------------------------------
\* sari/core/indexer/main.py Indexer._worker_loop with the process pool:
\* the test of the pending futures, the submit, the callback of a future
\* and the fall back to synchronous processing.
nonPoolVars == <<envVars, appVars, sariVars, gateVars, schedVars, scanVars,
                 lifeVars, toolVars, shutVars, lockVars,
                 regVars, proxyVars>>

\* Indexer._handle_task / _handle_failed_task in the calling thread: the
\* result is finalized, or the failure is counted
HandleSync(t, ok) ==
  /\ ~ok => pool_faults < MaxPoolFaults
  /\ finalized' = IF ok THEN [finalized EXCEPT ![t] = @ + 1] ELSE finalized
  /\ pool_failed' = IF ok THEN pool_failed ELSE [pool_failed EXCEPT ![t] = @ + 1]

FaultsAfter(n) == pool_faults' = pool_faults + n

\* Indexer._worker_loop: under _futures_lock, the loop sleeps and starts
\* again when more than 3 * max_workers futures are pending
LoopCheckFutures(w) ==
  /\ loop_pc[w] = "top"
  /\ ~(Cardinality(futures) > max_workers * 3)
  /\ loop_pc' = [loop_pc EXCEPT ![w] = "checked"]
  /\ UNCHANGED <<futures, use_process_pool, pool_next, finalized, pool_failed,
                 affected, pool_faults>>
  /\ UNCHANGED nonPoolVars

\* Indexer._worker_loop: get_next_task returns nothing
LoopIdle(w) ==
  /\ loop_pc[w] = "checked"
  /\ pool_next > MaxPoolTasks
  /\ loop_pc' = [loop_pc EXCEPT ![w] = "top"]
  /\ UNCHANGED <<futures, use_process_pool, pool_next, finalized, pool_failed,
                 affected, pool_faults>>
  /\ UNCHANGED nonPoolVars

\* Indexer._worker_loop: the task is submitted and its future is added
LoopSubmit(w) ==
  /\ loop_pc[w] = "checked"
  /\ pool_next <= MaxPoolTasks
  /\ use_process_pool
  /\ futures' = futures \cup {pool_next}
  /\ pool_next' = pool_next + 1
  /\ loop_pc' = [loop_pc EXCEPT ![w] = "top"]
  /\ UNCHANGED <<use_process_pool, finalized, pool_failed, affected, pool_faults>>
  /\ UNCHANGED nonPoolVars

\* mutant of LoopSubmitFails: the task whose submit raised is given up
LoopSubmitFails_TaskLost(w, ok) ==
  /\ loop_pc[w] = "checked"
  /\ pool_next <= MaxPoolTasks
  /\ use_process_pool
  /\ pool_faults < MaxPoolFaults
  /\ use_process_pool' = FALSE
  /\ affected' = affected \cup {pool_next}
  /\ FaultsAfter(1)
  /\ pool_next' = pool_next + 1
  /\ loop_pc' = [loop_pc EXCEPT ![w] = "top"]
  /\ UNCHANGED <<futures, finalized, pool_failed>>
  /\ UNCHANGED nonPoolVars

\* Indexer._worker_loop: submit raises; _disable_process_pool, then the task
\* is handled in the loop
LoopSubmitFails(w, ok) ==
  /\ loop_pc[w] = "checked"
  /\ pool_next <= MaxPoolTasks
  /\ use_process_pool
  /\ pool_faults + (IF ok THEN 1 ELSE 2) <= MaxPoolFaults
  /\ use_process_pool' = FALSE
  /\ affected' = affected \cup {pool_next}
  /\ HandleSync(pool_next, ok)
  /\ FaultsAfter(IF ok THEN 1 ELSE 2)
  /\ pool_next' = pool_next + 1
  /\ loop_pc' = [loop_pc EXCEPT ![w] = "top"]
  /\ UNCHANGED futures
  /\ UNCHANGED nonPoolVars

\* Indexer._worker_loop: the pool is disabled, the task is handled in the loop
LoopSync(w, ok) ==
  /\ loop_pc[w] = "checked"
  /\ pool_next <= MaxPoolTasks
  /\ ~use_process_pool
  /\ HandleSync(pool_next, ok)
  /\ FaultsAfter(IF ok THEN 0 ELSE 1)
  /\ pool_next' = pool_next + 1
  /\ loop_pc' = [loop_pc EXCEPT ![w] = "top"]
  /\ UNCHANGED <<futures, use_process_pool, affected>>
  /\ UNCHANGED nonPoolVars

\* Indexer._on_task_complete: the callback of the future of task t; res is
\* "ok" (a result), "none" (no result), "broken" (BrokenProcessPool) or
\* "error" (any other exception, a cancelled future included)
OnTaskComplete(t, res, ok) ==
  /\ t \in futures
  /\ futures' = futures \ {t}
  /\ CASE res = "ok" ->
            /\ ok
            /\ finalized' = [finalized EXCEPT ![t] = @ + 1]
            /\ UNCHANGED <<pool_failed, use_process_pool, affected, pool_faults>>
       [] res = "none" ->
            /\ pool_faults + (IF ok THEN 1 ELSE 2) <= MaxPoolFaults
            /\ HandleSync(t, ok)
            /\ FaultsAfter(IF ok THEN 1 ELSE 2)
            /\ UNCHANGED <<use_process_pool, affected>>
       [] res = "broken" ->
            /\ pool_faults + (IF ok THEN 1 ELSE 2) <= MaxPoolFaults
            /\ use_process_pool' = FALSE
            /\ affected' = affected \cup {t}
            /\ HandleSync(t, ok)
            /\ FaultsAfter(IF ok THEN 1 ELSE 2)
       [] res = "error" ->
            /\ ok
            /\ pool_faults < MaxPoolFaults
            /\ pool_failed' = [pool_failed EXCEPT ![t] = @ + 1]
            /\ FaultsAfter(1)
            /\ UNCHANGED <<finalized, use_process_pool, affected>>
  /\ UNCHANGED <<pool_next, loop_pc>>
  /\ UNCHANGED nonPoolVars

\* Indexer.run_forever: min(2, max_workers) worker loops
PoolLoops == 1..Min(2, max_workers)

NextPool ==
  \/ \E w \in PoolLoops : LoopCheckFutures(w)
  \/ \E w \in PoolLoops : LoopIdle(w)
  \/ \E w \in PoolLoops : LoopSubmit(w)
  \/ \E w \in PoolLoops, ok \in BOOLEAN : LoopSubmitFails(w, ok)
  \/ \E w \in PoolLoops, ok \in BOOLEAN : LoopSync(w, ok)
  \/ \E t \in PoolTasks, res \in {"ok", "none", "broken", "error"}, ok \in BOOLEAN :
       OnTaskComplete(t, res, ok)

InitPoolSpec == InitEnv /\ InitApp /\ InitSari /\ InitAux

SpecPool == InitPoolSpec /\ [][NextPool]_vars

\* ------------------------------------------------------------------------
\* The locks of the indexing threads. A step takes ("acq") or gives back
\* ("rel") a lock; a queue is held for the time of its put or get, the
\* engine adapter for the time of a call into it.
nonLockVars == <<envVars, appVars, sariVars, gateVars, schedVars, scanVars,
                 lifeVars, toolVars, shutVars, poolVars,
                 regVars, proxyVars>>

\* app/indexer.py Indexer._enqueue_action: the map is updated and the key is
\* put under _coalesce_lock
EnqueueActionLocks ==
  << <<"acq", "coalesce_map">>, <<"acq", "event_queue">>,
     <<"rel", "event_queue">>, <<"rel", "coalesce_map">> >>

\* app/indexer.py Indexer._worker_loop: get_batch, the pop under
\* _coalesce_lock, then the enqueue to the writer
WorkerLoopLocks ==
  << <<"acq", "event_queue">>, <<"rel", "event_queue">>,
     <<"acq", "coalesce_map">>, <<"rel", "coalesce_map">>,
     <<"acq", "writer_queue">>, <<"rel", "writer_queue">> >>

\* mutant of FinalizeLocks: the buffer lock is taken inside the enqueue
FinalizeLocks_QueueFirst ==
  << <<"acq", "writer_queue">>, <<"acq", "coalesce_map">>,
     <<"rel", "coalesce_map">>, <<"rel", "writer_queue">> >>

\* sari/core/indexer/main.py Indexer._finalize_file_indexing: the full
\* buffer is handed to the writer under _l1_lock, the lock of the buffer
\* that coalesces the rows of the scan
FinalizeLocks ==
  << <<"acq", "coalesce_map">>, <<"acq", "writer_queue">>,
     <<"rel", "writer_queue">>, <<"acq", "writer_queue">>,
     <<"rel", "writer_queue">>, <<"rel", "coalesce_map">> >>

\* sari/core/indexer/db_writer.py DBWriter._run: the batch is drained, then
\* _process_batch calls the engine
WriterRunLocks ==
  << <<"acq", "writer_queue">>, <<"rel", "writer_queue">>,
     <<"acq", "engine_adapter">>, <<"rel", "engine_adapter">> >>

LockSteps(th) ==
  CASE th = "watcher" -> EnqueueActionLocks
    [] th = "worker" -> WorkerLoopLocks
    [] th = "scan_worker" -> FinalizeLocks
    [] th = "writer" -> WriterRunLocks

LockFree(l) == \A th \in LockThreads : ~InSeq(l, lock_held[th])

\* one thread takes its next lock, waiting while another thread holds it,
\* or gives one back; after its last step it starts again
LockStep(th) ==
  LET step == LockSteps(th)[lock_pc[th]] IN
  /\ step[1] = "acq" => LockFree(step[2])
  /\ lock_held' = [lock_held EXCEPT ![th] =
                     IF step[1] = "acq" THEN Append(@, step[2])
                     ELSE SelectSeq(@, LAMBDA l : l # step[2])]
  /\ lock_pc' = [lock_pc EXCEPT ![th] =
                   IF @ = Len(LockSteps(th)) THEN 1 ELSE @ + 1]
  /\ UNCHANGED nonLockVars

NextLocks == \E th \in LockThreads : LockStep(th)

InitLocksSpec == InitEnv /\ InitApp /\ InitSari /\ InitAux

SpecLocks == InitLocksSpec /\ [][NextLocks]_vars

\* ------------------------------------------------------------------------
\* mcp/registry.py and mcp/session.py: sessions bind to the shared server
\* of a workspace through the Registry.
nonRegVars == <<envVars, appVars, sariVars, gateVars, schedVars, scanVars,
                lifeVars, toolVars, shutVars, poolVars, lockVars, proxyVars>>

RegistryState == [workspaces |-> reg_workspaces, refs |-> ref_count,
                  shutdowns |-> shutdowns, created |-> created]

SetRegistryState(reg) ==
  /\ reg_workspaces' = reg.workspaces
  /\ ref_count' = reg.refs
  /\ shutdowns' = reg.shutdowns
  /\ created' = reg.created

\* Registry.get_or_create: a SharedState is made for a new root, and
\* SharedState.acquire adds one to its count
get_or_create(reg, w) ==
  [reg EXCEPT
     !.workspaces = @ \cup {w},
     !.created = IF w \in reg.workspaces THEN @ ELSE [@ EXCEPT ![w] = @ + 1],
     !.refs = [@ EXCEPT ![w] = @ + 1]]

\* mutant of release: the server is shut down when one reference remains
release_EarlyShutdown(reg, w) ==
  IF w \notin reg.workspaces THEN reg
  ELSE LET remaining == reg.refs[w] - 1 IN
       IF remaining <= 1
       THEN [reg EXCEPT !.refs = [@ EXCEPT ![w] = 0],
                        !.shutdowns = [@ EXCEPT ![w] = @ + 1],
                        !.workspaces = @ \ {w}]
       ELSE [reg EXCEPT !.refs = [@ EXCEPT ![w] = remaining]]

\* Registry.release: SharedState.release takes one from the count; at zero
\* the server is shut down and the root leaves the registry
release(reg, w) ==
  IF w \notin reg.workspaces THEN reg
  ELSE LET remaining == reg.refs[w] - 1 IN
       IF remaining <= 0
       THEN [reg EXCEPT !.refs = [@ EXCEPT ![w] = 0],
                        !.shutdowns = [@ EXCEPT ![w] = @ + 1],
                        !.workspaces = @ \ {w}]
       ELSE [reg EXCEPT !.refs = [@ EXCEPT ![w] = remaining]]

\* Session.handle_initialize: a session bound to another root releases it;
\* the root is acquired; when the server's initialize or the reply raises
\* (~ok) the root is released again and the session is unbound
handle_initialize(s, w, ok) ==
  /\ session_open[s]
  /\ n_init < MaxInit
  /\ ~ok => reg_faults < MaxRegFaults
  /\ n_init' = n_init + 1
  /\ reg_faults' = IF ok THEN reg_faults ELSE reg_faults + 1
  /\ LET reg1 == IF workspace_root[s] # NoRoot /\ workspace_root[s] # w
                 THEN release(RegistryState, workspace_root[s])
                 ELSE RegistryState
         reg2 == get_or_create(reg1, w)
     IN SetRegistryState(IF ok THEN reg2 ELSE release(reg2, w))
  /\ workspace_root' = [workspace_root EXCEPT ![s] = IF ok THEN w ELSE NoRoot]
  /\ UNCHANGED session_open
  /\ UNCHANGED nonRegVars

\* Session.cleanup, from the finally of handle_connection
cleanup(s) ==
  /\ session_open[s]
  /\ session_open' = [session_open EXCEPT ![s] = FALSE]
  /\ SetRegistryState(IF workspace_root[s] # NoRoot
                      THEN release(RegistryState, workspace_root[s])
                      ELSE RegistryState)
  /\ workspace_root' = [workspace_root EXCEPT ![s] = NoRoot]
  /\ UNCHANGED <<n_init, reg_faults>>
  /\ UNCHANGED nonRegVars

NextRegistry ==
  \/ \E s \in Sessions, w \in Workspaces, ok \in BOOLEAN : handle_initialize(s, w, ok)
  \/ \E s \in Sessions : cleanup(s)

InitRegistrySpec == InitEnv /\ InitApp /\ InitSari /\ InitAux

SpecRegistry == InitRegistrySpec /\ [][NextRegistry]_vars

\* ------------------------------------------------------------------------
\* mcp/proxy.py start_daemon_if_needed, called by several proxies at once
nonProxyVars == <<envVars, appVars, sariVars, gateVars, schedVars, scanVars,
                  lifeVars, toolVars, shutVars, poolVars, lockVars, regVars>>

ProxyReturn(p, ret) ==
  /\ proxy_pc' = [proxy_pc EXCEPT ![p] = "returned"]
  /\ proxy_ret' = [proxy_ret EXCEPT ![p] = ret]

\* the first connection attempt, before the lock file is opened
ProxyFirstCheck(p) ==
  /\ proxy_pc[p] = "start"
  /\ IF listening
     THEN ProxyReturn(p, "true")
     ELSE /\ proxy_pc' = [proxy_pc EXCEPT ![p] = "want_lock"]
          /\ UNCHANGED proxy_ret
  /\ UNCHANGED <<proxy_polls, daemon_lock, spawned, listening>>
  /\ UNCHANGED nonProxyVars

\* fcntl.flock(lock_file, LOCK_EX), blocking
ProxyLock(p) ==
  /\ proxy_pc[p] = "want_lock"
  /\ daemon_lock = 0
  /\ daemon_lock' = p
  /\ proxy_pc' = [proxy_pc EXCEPT ![p] = "locked"]
  /\ UNCHANGED <<proxy_polls, proxy_ret, spawned, listening>>
  /\ UNCHANGED nonProxyVars

\* the second connection attempt under the lock, then Popen of the daemon
ProxyDoubleCheck(p) ==
  /\ proxy_pc[p] = "locked"
  /\ IF listening
     THEN /\ ProxyReturn(p, "true")
          /\ daemon_lock' = 0
          /\ UNCHANGED spawned
     ELSE /\ proxy_pc' = [proxy_pc EXCEPT ![p] = "waiting"]
          /\ spawned' = spawned + 1
          /\ UNCHANGED <<proxy_ret, daemon_lock>>
  /\ UNCHANGED <<proxy_polls, listening>>
  /\ UNCHANGED nonProxyVars

\* one turn of the wait loop; after StartupPolls failed attempts the proxy
\* gives up, and the finally releases the lock
ProxyPoll(p) ==
  /\ proxy_pc[p] = "waiting"
  /\ IF listening
     THEN /\ ProxyReturn(p, "true")
          /\ daemon_lock' = 0
          /\ UNCHANGED proxy_polls
     ELSE /\ proxy_polls' = [proxy_polls EXCEPT ![p] = @ + 1]
          /\ IF proxy_polls[p] + 1 = StartupPolls
             THEN ProxyReturn(p, "false") /\ daemon_lock' = 0
             ELSE UNCHANGED <<proxy_pc, proxy_ret, daemon_lock>>
  /\ UNCHANGED <<spawned, listening>>
  /\ UNCHANGED nonProxyVars

\* a daemon that was started binds the port
DaemonListens ==
  /\ spawned > 0
  /\ ~listening
  /\ listening' = TRUE
  /\ UNCHANGED <<proxy_pc, proxy_polls, proxy_ret, daemon_lock, spawned>>
  /\ UNCHANGED nonProxyVars

NextProxy ==
  \/ \E p \in Proxies : ProxyFirstCheck(p)
  \/ \E p \in Proxies : ProxyLock(p)
  \/ \E p \in Proxies : ProxyDoubleCheck(p)
  \/ \E p \in Proxies : ProxyPoll(p)
  \/ DaemonListens

InitProxySpec == InitEnv /\ InitApp /\ InitSari /\ InitAux

SpecProxy == InitProxySpec /\ [][NextProxy]_vars

\* rows of the scan that have not reached the staging table or the files table
ScanRowsOutside ==
  \/ \E w \in Workers : in_flight[w].use_staging
  \/ \E r \in Roots : \E i \in 1..Len(sched_fair[r]) : sched_fair[r][i].use_staging
  \/ \E p \in Paths : l1_buffer[p] # NoRow
  \/ \E i \in 1..Len(scan_queue) : scan_queue[i].kind = "upsert_files_staging"

\* the content a reader finds in the files table
VersionsOf(tbl) == [p \in Paths |-> tbl[p].ver]

\* ------------------------------------------------------------------------
\* C1 (as claimed): once every queue of the pipeline has drained, with no
\* failure injected and no action dropped, a path whose last action was DELETE
\* has no files row and a path whose last action was INDEX has a row holding
\* the content on disk.
AppQuiescent ==
  /\ event_queue = <<>>
  /\ coalesce_map = {}
  /\ worker_keys = <<>>
  /\ worker_task = NoTask
  /\ timers = <<>>
  /\ db_queue = <<>>

AppNoFaults == n_faults = 0 /\ drop_count_degraded = 0

C1_CoalescingLaw ==
  (AppQuiescent /\ AppNoFaults) =>
    \A p \in Paths :
      /\ last_action[p] = "DELETE" => app_db.files[p] = 0
      /\ last_action[p] = "INDEX" => app_db.files[p] = disk[p]


\* ------------------------------------------------------------------------
\* C3: a task that actions were coalesced into holds DELETE if the action it
\* was created with or any action that arrived for its key since is DELETE,
\* and INDEX otherwise, whatever the order of arrival.
C3_CoalesceRule ==
  \A t \in coalesce_map :
    t.merged # {} =>
      t.action = (IF "DELETE" \in ({t.first} \cup t.merged) THEN "DELETE" ELSE "INDEX")

\* a DELETE task that an INDEX arrived for later is still a DELETE task
C3_Witness ==
  \E t \in coalesce_map :
    t.first = "DELETE" /\ "INDEX" \in t.merged /\ t.action = "DELETE"

\* ------------------------------------------------------------------------
\* C4 (as claimed): counting the task in the map, the task the worker has
\* popped and the tasks waiting for a retry timer, a key never has more than
\* one coalesce task.
TasksOfKey(p) ==
  Cardinality({t \in coalesce_map : t.path = p})
    + (IF worker_task.path = p THEN 1 ELSE 0)
    + Cardinality({i \in 1..Len(timers) : timers[i].path = p})

C4_OneTaskPerKeyAnywhere == \A p \in Paths : TasksOfKey(p) <= 1

\* C4 (amended): the coalesce map never holds two tasks of one key and the
\* event queue never holds a key twice.
C4_OneTaskPerKeyInMap ==
  /\ \A t1, t2 \in coalesce_map : t1.path = t2.path => t1 = t2
  /\ \A i, j \in 1..Len(event_queue) : event_queue[i] = event_queue[j] => i = j

\* the worker holds the task of a key while the map holds a newer one
C4_Witness ==
  /\ worker_task # NoTask
  /\ \E t \in coalesce_map : t.path = worker_task.path


\* ------------------------------------------------------------------------
\* C2 (as claimed): the committed files row of a path is never the write of
\* an INDEX action that was observed before a DELETE of that path whose
\* delete has been committed.
\* ------------------------------------------------------------------------
C2_NoIndexWriteAfterLaterDelete ==
  \A p \in Paths : db.files[p] # 0 => db.src[p] > db.del[p]

\* ------------------------------------------------------------------------
\* C5: within one writer batch the operations run in the order delete_path,
\* upsert_files, upsert_symbols, upsert_relations, update_last_seen,
\* upsert_repo_meta, DLQ operations, whatever the order of the tasks in the
\* queue was.
\* ------------------------------------------------------------------------
OpRank(op) ==
  CASE op = "delete_path" -> 1
    [] op = "upsert_files" -> 2
    [] op = "upsert_symbols" -> 3
    [] op = "upsert_relations" -> 4
    [] op = "update_last_seen" -> 5
    [] op = "upsert_repo_meta" -> 6
    [] op \in {"dlq_upsert", "dlq_clear"} -> 7
    [] OTHER -> 8

C5_FixedOrderInBatch ==
  /\ \A i, j \in 1..Len(run_ops) : i < j => OpRank(run_ops[i]) <= OpRank(run_ops[j])
  /\ \A i \in 1..Len(last_batch) :
       (run_log = <<"BEGIN", "COMMIT">> /\ OpRank(last_batch[i].kind) <= 7)
         => \E j \in 1..Len(run_ops) : run_ops[j] = last_batch[i].kind

C5_Witness ==
  /\ Len(last_batch) = 2
  /\ OpRank(last_batch[1].kind) > OpRank(last_batch[2].kind)
  /\ run_log = <<"BEGIN", "COMMIT">>
  /\ Len(run_ops) >= 2

\* ------------------------------------------------------------------------
\* C6 (as claimed): after a batch has been handled, either all of its tasks
\* are committed or none of them is.
\* ------------------------------------------------------------------------
C6_AllOrNothing ==
  run_singles # <<>> =>
    \/ \A i \in 1..Len(run_singles) : run_singles[i].ok
    \/ \A i \in 1..Len(run_singles) : ~run_singles[i].ok

\* a step of the writer: the only step that takes tasks off its queue
WriterStep == Len(queue') < Len(queue)

\* C6 (amended): a batch is first executed in one transaction; that
\* transaction either commits, and is then the only transaction of the batch,
\* or is rolled back as a whole, and the tables change only by what the
\* individual transactions that follow commit: without a commit the tables
\* are what they were before the batch.
C6_OneTransactionThenRetries ==
  [][WriterStep =>
       /\ run_log'[1] = "BEGIN"
       /\ run_log'[2] = "COMMIT" => (Len(run_log') = 2 /\ run_singles' = <<>>)
       /\ run_log'[2] = "ROLLBACK" => Len(run_singles') = Len(last_batch')
       /\ (\A i \in 1..Len(run_log') : run_log'[i] # "COMMIT") => db' = db]_vars

C6_Witness ==
  /\ Len(run_log) >= 2
  /\ run_log[2] = "ROLLBACK"
  /\ \E i \in 1..Len(run_singles) : run_singles[i].ok
  /\ \E i \in 1..Len(run_singles) : ~run_singles[i].ok

\* ------------------------------------------------------------------------
\* C7 (as claimed): when the engine raises while a batch is handled, the SQL
\* transaction of the batch is committed all the same.
\* ------------------------------------------------------------------------
EngineRaisedInBatch ==
  /\ run_engine_failed
  /\ run_ops # <<>>
  /\ run_ops[Len(run_ops)] \in {"engine_upsert", "engine_delete"}

C7_EngineFailureKeepsCommit ==
  EngineRaisedInBatch => run_log[2] = "COMMIT"

C9_EngineFailureFillsDlq ==
  EngineRaisedInBatch =>
    EngineAffected \subseteq (db.failed \cup TaskPaths(queue, "dlq_upsert"))

C11_SymbolsReplacedWithFilesRow ==
  \A p \in Paths :
    /\ db.symbols[p] = (IF HasSymbols(db.files[p]) THEN db.files[p] ELSE 0)
    /\ db.relations[p] = (IF HasSymbols(db.files[p]) THEN db.files[p] ELSE 0)

\* ------------------------------------------------------------------ C12
\* C12: when the staging merge of a full scan runs, every row produced by the
\* scan is in the staging table: no scan task is still queued or in flight and
\* no row of the scan waits in the L1 buffer or in the writer queue.
C12_MergeAfterScanRowsStaged ==
  merged_ts # 0 => ~ScanRowsOutside

\* ------------------------------------------------------------------ C13
\* C13: during a full scan without watcher events and without failures a
\* reader of the files table finds either the rows of before the scan or the
\* rows of after it, one row for each file of the scanned tree and no other:
\* never a set in between.
C13_ReaderSeesPreOrPostScan ==
  (scan_pc # "init" /\ n_events = 0 /\ n_faults = 0)
    => \/ VersionsOf(live) = VersionsOf(pre_scan)
       \/ VersionsOf(live) = disk

\* ------------------------------------------------------------------ C14
\* C14: once the merge of a full scan has committed, every files row has
\* last_seen at or after the start timestamp of that scan.
C14_NoRowOlderThanScan ==
  merged_ts # 0 =>
    \A p \in Paths : live[p] # NoRow => live[p].seen >= merged_ts

\* ------------------------------------------------------------------ C15
\* C15: only the writer thread executes mutating SQL.
C15_OnlyWriterMutates ==
  sql_threads \subseteq {"writer"}

\* ------------------------------------------------------------------ C16
\* C16: of the processes that share the database path, at most one at a time
\* is inside a write transaction (after its BEGIN, before its commit or
\* rollback).
C16_OneWriteTxAcrossProcesses ==
  \A w1, w2 \in Procs : (InWriteTx(w1) /\ InWriteTx(w2)) => w1 = w2

\* ------------------------------------------------------------------ C17
\* C17: when the coalesce map holds coalesce_max_keys keys, an enqueued action
\* is dropped, and drop_count_degraded incremented, exactly when its key has
\* no task in the map; an action whose key has a task is coalesced into that
\* task and queued. A moved event enqueues two actions: it drops nothing for
\* a key that has a task and never grows the map beyond the limit.
MapKeys(m) == {t.path : t \in m}

EnqueueOf(p) ==
  \/ \E v \in 1..MaxVer : AppFsModified(p, v)
  \/ AppFsDeleted(p)
  \/ \E i \in 1..Len(timers) : timers[i].path = p /\ TimerFire(i)

C17_DropIffNewKeyAtLimit ==
  [][/\ \A p \in Paths :
          (EnqueueOf(p) /\ Cardinality(coalesce_map) >= coalesce_max_keys) =>
            /\ (p \notin MapKeys(coalesce_map)) <=>
                  /\ drop_count_degraded' = drop_count_degraded + 1
                  /\ coalesce_map' = coalesce_map
                  /\ event_queue' = event_queue
            /\ (p \in MapKeys(coalesce_map)) =>
                  /\ drop_count_degraded' = drop_count_degraded
                  /\ MapKeys(coalesce_map') = MapKeys(coalesce_map)
                  /\ \A t \in coalesce_map : t.path # p => t \in coalesce_map'
                  /\ \E t \in coalesce_map, u \in coalesce_map' :
                        /\ t.path = p /\ u.path = p
                        /\ t.merged \subseteq u.merged
                        /\ u.merged # {}
                        /\ u.first = t.first
                  /\ InSeq(p, event_queue')
     /\ \A src, dst \in Paths :
          AppFsMoved(src, dst) =>
            /\ MapKeys(coalesce_map) \subseteq MapKeys(coalesce_map')
            /\ Cardinality(coalesce_map') <=
                  Max(coalesce_max_keys, Cardinality(coalesce_map))
            /\ drop_count_degraded' - drop_count_degraded <=
                  Cardinality({src, dst} \ MapKeys(coalesce_map))
    ]_vars

\* a run without faults in which an action was dropped at the limit while
\* the pending task of a key in the map has absorbed a further action
C17_Witness ==
  /\ n_faults = 0
  /\ drop_count_degraded > 0
  /\ Cardinality(coalesce_map) >= coalesce_max_keys
  /\ \E t \in coalesce_map : t.merged # {}

\* ------------------------------------------------------------------ C18
\* C18: a task that fails with an IO or permission error is re-armed with
\* attempts + 1 while its attempts are below MaxRetries (2); a failure of a
\* task that already has MaxRetries attempts arms no timer, counts no retry
\* and increments drop_count_degraded. No task ever carries more than
\* MaxRetries attempts.
C18_RetryAtMostTwice ==
  [][/\ (\E phase \in {"stat", "process"} : WorkerIndexIOError(phase)) =>
          IF worker_task.attempts >= MaxRetries
          THEN /\ drop_count_degraded' = drop_count_degraded + 1
               /\ timers' = timers
               /\ retry_count' = retry_count
          ELSE /\ drop_count_degraded' = drop_count_degraded
               /\ retry_count' = retry_count + 1
               /\ Len(timers') = Len(timers) + 1
               /\ TimerTask(timers'[Len(timers')]) =
                    [worker_task EXCEPT !.attempts = worker_task.attempts + 1]
     /\ \A i \in 1..Len(timers') : timers'[i].attempts <= MaxRetries
     /\ \A t \in coalesce_map' : t.attempts <= MaxRetries
     /\ worker_task'.attempts <= MaxRetries
    ]_vars

\* one event only, so nothing overflows: the task was retried twice and its
\* third failure dropped it
C18_Witness ==
  /\ n_events = 1
  /\ retry_count = MaxRetries
  /\ drop_count_degraded = 1
  /\ timers = <<>>


\* ------------------------------------------------------------------ C19
\* C19: the fair queue is served round-robin over the roots: while a root has
\* fair tasks pending, at most Len(RootOrder) - 1 fair tasks of other roots
\* are handed out before one of its own, however long the other queues are.
C19_FairRoundRobin ==
  \A r \in Roots : sched_wait[r] <= Len(RootOrder) - 1

\* a root was passed over by every other root once: two other roots were
\* served while it waited, one of them with more tasks pending than it has
C19_Witness ==
  \E r, o \in Roots :
    /\ sched_wait[r] = Len(RootOrder) - 1
    /\ sched_fair[r] # <<>>
    /\ o # r
    /\ Len(sched_fair[o]) > Len(sched_fair[r])

\* ------------------------------------------------------------------ C20
\* C20: the scheduler never hands out a task of the fair queue while the
\* priority queue holds a task.
C20_PriorityDrainedFirst ==
  [][(\E r \in Roots : Len(sched_fair'[r]) < Len(sched_fair[r]))
       => sched_priority = <<>>]_vars

\* priority tasks and fair tasks were queued together: the priority tasks
\* went out first, then a fair task
C20_Witness ==
  /\ Len(sched_log) >= 3
  /\ sched_log[1] = "priority"
  /\ sched_log[2] = "priority"
  /\ sched_log[3] = "fair"
  /\ \E r \in Roots : \E i \in 1..Len(sched_fair[r]) : sched_fair[r][i] = 1

\* ------------------------------------------------------------------ C21
\* C21: once the writer runs and tasks of a rescan have been enqueued, the
\* queue depth eventually is 0 with a last commit timestamp greater than 0.
C21_QueueDrainsAndCommits ==
  (writer_thread # "new" /\ life_enq > 0)
    ~> (writer_queue = 0 /\ last_commit_ts > 0)

\* ------------------------------------------------------------------ C22
\* C22: stop returns true exactly when no task enqueued before the call is
\* still in the queue or in an unfinished batch.
C22_StopReturnsDrained ==
  stop_pc = "returned" => (stop_ret <=> stop_drained)

\* ------------------------------------------------------------------ C23
\* C23: a batch in which a delete_path of a path is followed by an
\* upsert_files of the same path leaves the files table as the same batch
\* without that delete_path leaves it (row versions; last_seen is not part
\* of the comparison).
RECURSIVE DropDeleteBeforeIndex(_)
DropDeleteBeforeIndex(tasks) ==
  IF tasks = <<>> THEN <<>>
  ELSE IF /\ Head(tasks).kind = "delete_path"
          /\ \E j \in 2..Len(tasks) :
                tasks[j].kind = "upsert_files" /\ tasks[j].path = Head(tasks).path
       THEN DropDeleteBeforeIndex(Tail(tasks))
       ELSE <<Head(tasks)>> \o DropDeleteBeforeIndex(Tail(tasks))

C23_DeleteThenIndexIsIndex ==
  [][(db_queue # <<>> /\ db_queue' = Suffix(db_queue, max_batch)
        /\ app_failed' = app_failed)
       => app_db'.files =
            AppProcessBatch(app_db,
                            DropDeleteBeforeIndex(Prefix(db_queue, max_batch))).files]_vars

\* ------------------------------------------------------------------ C24
\* C24: finalizing the task of a file whose stored row matches the file only
\* queues an update_last_seen of its path, and a writer batch changes, of the
\* rows it has no files row and no merge for, nothing but the last_seen of
\* the paths of its update_last_seen tasks.
C24_UnchangedOnlyRefreshesLastSeen ==
  [][/\ \A w \in Workers :
          (/\ in_flight[w] # NoScanTask
           /\ in_flight'[w] = NoScanTask
           /\ n_faults' = n_faults
           /\ live[in_flight[w].path].ver = disk[in_flight[w].path])
          => /\ scan_queue' = Append(scan_queue,
                                     WTask("update_last_seen", <<in_flight[w].path>>))
             /\ UNCHANGED <<l1_buffer, live, staging>>
     /\ (scan_queue # <<>> /\ scan_queue' = Suffix(scan_queue, max_batch))
          => LET tasks == Prefix(scan_queue, max_batch)
                 rows == UpsertRowsOf(tasks)
                 written == {rows[i][1] : i \in 1..Len(rows)}
                 merge == \E i \in 1..Len(tasks) : tasks[i].kind = "staging_merge"
             IN \A p \in Paths :
                  (p \notin written /\ ~(merge /\ staging[p] # NoRow)) =>
                    /\ live'[p].ver = live[p].ver
                    /\ live'[p].seen # live[p].seen
                         => (p \in LastSeenPathsOf(tasks) /\ live'[p].seen = clock)
    ]_vars

\* the row a file had before the scan is still there with the same content
\* and a refreshed last_seen
C24_Witness ==
  /\ n_events = 0
  /\ n_faults = 0
  /\ \E p \in Paths :
       /\ disk[p] = 1
       /\ pre_scan[p] = FilesRow(1, 0)
       /\ live[p].ver = 1
       /\ live[p].seen > 0

\* ------------------------------------------------------------------ C25
\* C25: when the files table holds exactly the files of the workspace from an
\* earlier full scan and nothing has changed on disk, the table has as many
\* rows after the next full scan has settled as before it.
RowCount(tbl) == Cardinality({p \in Paths : tbl[p] # NoRow})

ScanSettled ==
  /\ scan_pc = "ready"
  /\ active_roots = {}
  /\ dry_seen = {}
  /\ \A w \in Workers : in_flight[w] = NoScanTask
  /\ GetNextTask(sched_priority, sched_fair, sched_rr).kind = "none"
  /\ \A q \in Paths : l1_buffer[q] = NoRow
  /\ scan_queue = <<>>

C25_RescanKeepsRowCounts ==
  (/\ ScanSettled
   /\ n_events = 0
   /\ n_faults = 0
   /\ \A p \in Paths : pre_scan[p] # NoRow <=> disk[p] # 0)
  => RowCount(live) = RowCount(pre_scan)

\* ------------------------------------------------------------------ C26
\* C26: when the worker handles an INDEX task and the file of its path is
\* missing, the step appends one delete_path task for that path to the writer
\* queue and neither arms a retry nor counts an error or a drop.
C26_MissingFileBecomesDelete ==
  [][(worker_task.action = "INDEX" /\ disk[worker_task.path] = 0
        /\ worker_task' # worker_task)
       => /\ db_queue' = Append(db_queue,
                                 DbTask("delete_path", worker_task.path, 0, FALSE, 0))
          /\ UNCHANGED <<timers, retry_count, errors, drop_count_degraded>>
          /\ worker_task' = NoTask]_vars

\* a file was modified and deleted; the worker had popped the INDEX task
\* before the delete arrived and has turned it into a delete_path, while the
\* DELETE task of the second event is still pending
C26_Witness ==
  /\ n_events = 2
  /\ n_faults = 0
  /\ worker_task = NoTask
  /\ \E p \in Paths :
       /\ disk[p] = 0
       /\ \E t \in coalesce_map : t.path = p /\ t.action = "DELETE" /\ t.merged = {}
       /\ db_queue = <<DbTask("delete_path", p, 0, FALSE, 0)>>

\* ------------------------------------------------------------------ C27
\* C27: a response of search has at most 20 hits, a response of list_files at
\* most 200 paths and a response of search_symbols at most 50 symbols,
\* whatever the limit argument and the encoding.
C27_HardCaps ==
  tool_returned # -1 =>
    /\ tool_req.tool = "search" => tool_returned <= 20
    /\ tool_req.tool = "list_files" => tool_returned <= 200
    /\ tool_req.tool = "search_symbols" => tool_returned <= 50

\* ------------------------------------------------------------------ C28
\* C28: the engine adapter is called only after the transaction of the batch
\* has committed: none of the operations executed between BEGIN and the
\* commit (run_ops) is a call of the engine.
C28_EngineCalledAfterCommit ==
  \A i \in 1..Len(run_ops) : run_ops[i] \notin {"engine_upsert", "engine_delete"}

\* ------------------------------------------------------------------ C29
\* C29: no step removes the files row of a file that is on disk and was on
\* disk when the scan walked the roots (no file event has occurred).
C29_PruneKeepsDiscoveredFiles ==
  [][\A p \in Paths :
       (n_events = 0 /\ disk[p] # 0 /\ live[p] # NoRow) => live'[p] # NoRow]_vars

\* ------------------------------------------------------------------ C30
\* C30: the writer queue never holds more than one staging merge task of the
\* scan, whichever worker loops found the queue dry.
StagingMergesIn(q) == Cardinality({i \in 1..Len(q) : q[i].kind = "staging_merge"})

C30_OneStagingMergePerScan == StagingMergesIn(scan_queue) <= 1

\* ------------------------------------------------------------------ C31
\* C31: the timer of a first retry has a delay between 400 and 600 ms, the
\* timer of a second retry a delay between 800 and 1200 ms.
C31_RetryDelay ==
  \A i \in 1..Len(timers) :
    /\ timers[i].attempts = 1 => timers[i].delay \in 400..600
    /\ timers[i].attempts = 2 => timers[i].delay \in 800..1200

\* ------------------------------------------------------------------ C32
\* C32: a step in which the processing of a file fails adds one to the error
\* count, leaves the queues of the scheduler and the writer queue as they
\* are and frees the worker loop that held the task; a free worker loop can
\* always take the next task the scheduler has.
C32_FailureStaysInWorker ==
  /\ [][n_faults' # n_faults =>
          /\ scan_errors' = scan_errors + 1
          /\ UNCHANGED <<sched_priority, sched_fair, sched_rr, scan_queue,
                         dry_seen, scan_pc>>
          /\ \E w \in Workers :
               /\ in_flight[w] # NoScanTask
               /\ in_flight' = [in_flight EXCEPT ![w] = NoScanTask]]_vars
  /\ [](\A w \in Workers :
          (/\ in_flight[w] = NoScanTask
           /\ w \notin dry_seen
           /\ GetNextTask(sched_priority, sched_fair, sched_rr).kind # "none")
          => ENABLED WorkerTake(w))

\* one file of the scan failed and the other one was indexed and merged
C32_Witness ==
  /\ scan_errors = 1
  /\ n_events = 0
  /\ ScanSettled
  /\ \A p \in Paths : disk[p] = 1 /\ pre_scan[p] = NoRow
  /\ \E p \in Paths : live[p] # NoRow

\* ------------------------------------------------------------------ C33
\* C33: once the drain of the shutdown is over, the work that was counted as
\* dropped is the work that is left in the two queues: it is not handled
\* any more.
C33_CountedWorkIsAbandoned ==
  shut_pc = "stopped" => drop_count_shutdown = Len(event_queue) + Len(db_queue)

\* ------------------------------------------------------------------ C34
\* C34: the number of pending futures never exceeds 3 * max_workers.
C34_PendingFuturesCap == Cardinality(futures) <= 3 * max_workers

\* ------------------------------------------------------------------ C37
\* C37: once a submit has raised or a future has reported a broken pool, the
\* pool is disabled and stays disabled, and the task concerned has been
\* handled in the calling thread exactly once: its result was finalized
\* once, or its failure was counted once. No task is finalized twice.
C37_FallBackToSync ==
  /\ [][~use_process_pool => ~use_process_pool']_vars
  /\ [](/\ affected # {} => ~use_process_pool
        /\ \A t \in affected : finalized[t] + pool_failed[t] = 1
        /\ \A t \in PoolTasks : finalized[t] <= 1)

\* a submit raised with futures pending, and its task was finalized
C37_Witness ==
  /\ ~use_process_pool
  /\ futures # {}
  /\ \E t \in affected : finalized[t] = 1 /\ t \notin futures

\* ------------------------------------------------------------------ C36
\* C36: the key of every task in the coalesce map is in the event queue or
\* in the batch the worker loop holds, and every task in the map is
\* eventually taken out of it by the worker.
InMap(p) == \E t \in coalesce_map : t.path = p

C36_MapTasksAreTaken ==
  /\ [](\A p \in Paths :
          InMap(p) => InSeq(p, event_queue) \/ InSeq(p, worker_keys))
  /\ \A p \in Paths : InMap(p) ~> ~InMap(p)

\* an event was merged into a task whose key the worker already holds
C36_Witness ==
  \E t \in coalesce_map :
    /\ t.merged # {}
    /\ InSeq(t.path, worker_keys)
    /\ InSeq(t.path, event_queue)

\* ------------------------------------------------------------------ C35
\* C35: a thread that holds more than one of the coalesce-map lock, the
\* writer queue and the engine adapter took them in that order.
LockRank(l) ==
  CASE l = "coalesce_map" -> 1
    [] l = "writer_queue" -> 2
    [] l = "engine_adapter" -> 3
    [] OTHER -> 0

C35_LockOrder ==
  \A th \in LockThreads :
    \A i, j \in 1..Len(lock_held[th]) :
      (i < j /\ LockRank(lock_held[th][i]) > 0 /\ LockRank(lock_held[th][j]) > 0)
        => LockRank(lock_held[th][i]) < LockRank(lock_held[th][j])

\* a thread holds the coalesce-map lock and the writer queue
C35_Witness ==
  \E th \in LockThreads :
    lock_held[th] = <<"coalesce_map", "writer_queue">>

\* ------------------------------------------------------------------ C38
\* C38: a shared server is shut down in the step in which its reference
\* count reaches zero, and it leaves the registry in that step; a root is
\* registered exactly while its count is positive; each server is shut
\* down once; a session is only bound to a registered root.
BoundTo(w) == {s \in Sessions : workspace_root[s] = w}

C39_RefCountIsBoundSessions ==
  \A w \in Workspaces : ref_count[w] = Cardinality(BoundTo(w))

\* ------------------------------------------------------------------ C40
\* C40: at most one daemon process is spawned.
C40_OneDaemonSpawned == spawned <= 1

====
